---- MODULE Spec2Model ----
(***************************************************************************)
(* Model of the file relocation core of ai_local_file_organizer:           *)
(* FileMover (mover.py) and the planning / confirmation / execution flow   *)
(* of FileOrganizer._execute_organization (main.py), plus the plan         *)
(* executor of the click based organizer (file_organizer.py).              *)
(*                                                                         *)
(* A path is a sequence of components, a component is a sequence of        *)
(* symbols.  A symbol is a digit, the dot, a glob metacharacter, the       *)
(* root "/" or a run of letters that no operation of the program ever      *)
(* looks into.  Stem, suffix, numbering and glob matching are computed on  *)
(* these sequences the way pathlib and fnmatch compute them on strings.    *)
(***************************************************************************)
EXTENDS Integers, Sequences, FiniteSets, TLC

VARIABLES files, dirs, denied, copy_mode, has_planner, last, calls, pc, batch,
          idx, planned_moves, planned_destinations, skipped_files, error_files,
          organized_count, returned, audit_log, dry_run, scanned, result,
          exit_code, answer

vars == <<files, dirs, denied, copy_mode, has_planner, last, calls, pc, batch,
          idx, planned_moves, planned_destinations, skipped_files, error_files,
          organized_count, returned, audit_log, dry_run, scanned, result,
          exit_code, answer>>

\* the state of the audit log, of the click based organizer and of main()
auxVars == <<audit_log, dry_run, scanned, result, exit_code, answer>>

orgVars == <<pc, batch, idx, planned_moves, planned_destinations,
             skipped_files, error_files, organized_count, returned>>

(***************************************************************************)
(* Bounds of the model.                                                    *)
(***************************************************************************)
MaxCalls == 1

MaxBatch == 3

(***************************************************************************)
(* Symbols and components.                                                 *)
(***************************************************************************)
DigitSyms == <<"0", "1", "2", "3", "4", "5", "6", "7", "8", "9">>

Digits == {DigitSyms[i] : i \in 1..10}

W(s) == <<s>>

RootComp == W("/")

DotComp == W(".")

DotDotComp == <<".", ".">>

NoPath == <<>>

NoHash == <<>>

\* str(counter) of the f-strings that build numbered names
RECURSIVE Str(_)
Str(n) == IF n < 10 THEN <<DigitSyms[n + 1]>>
          ELSE Str(n \div 10) \o <<DigitSyms[(n % 10) + 1]>>

DigitVal(c) == CHOOSE v \in 0..9 : DigitSyms[v + 1] = c

\* str.isdigit(): non-empty and every character a digit
IsDigit(s) == Len(s) > 0 /\ \A i \in 1..Len(s) : s[i] \in Digits

\* int(s) for a string of digits
RECURSIVE IntOf(_)
IntOf(s) == IF Len(s) = 0 THEN 0
          ELSE 10 * IntOf(SubSeq(s, 1, Len(s) - 1)) + DigitVal(s[Len(s)])

\* str.startswith
StartsWith(s, p) == Len(p) <= Len(s) /\ SubSeq(s, 1, Len(p)) = p

\* str.lower() on the letter runs the model uses in upper case
LowerSym(c) == IF c = "PDF" THEN "pdf" ELSE c

Lower(s) == [i \in 1..Len(s) |-> LowerSym(s[i])]

(***************************************************************************)
(* pathlib: Path(str), parts, name, parent, stem, suffix, the / operator.  *)
(***************************************************************************)
\* Path(raw): "." components are dropped, ".." components are kept
PathOf(raw) == SelectSeq(raw, LAMBDA c : c # DotComp)

Name(p) == p[Len(p)]

Parent(p) == IF Len(p) <= 1 THEN p ELSE SubSeq(p, 1, Len(p) - 1)

IsAbs(p) == Len(p) > 0 /\ p[1] = RootComp

\* the entry a path names for the filesystem calls: pathlib keeps ".."
\* components, the kernel follows each one to the parent of the directory
\* reached so far, and the parent of the root is the root; the paths a
\* transfer returns are written in this form
RECURSIVE Resolved(_)
Resolved(p) ==
  IF Len(p) = 0 THEN p
  ELSE LET front == Resolved(SubSeq(p, 1, Len(p) - 1))
       IN  IF p[Len(p)] # DotDotComp THEN Append(front, p[Len(p)])
           ELSE IF Len(front) <= 1 THEN front
           ELSE SubSeq(front, 1, Len(front) - 1)

\* position of the last dot of a name, 0 when there is none (rfind + 1)
LastDot(n) == IF \E i \in 1..Len(n) : n[i] = "."
              THEN CHOOSE i \in 1..Len(n) :
                     n[i] = "." /\ \A j \in (i + 1)..Len(n) : n[j] # "."
              ELSE 0

\* PurePath.suffix: the last dot counts only when it is neither the first
\* nor the last character of the name
HasSuffix(n) == 1 < LastDot(n) /\ LastDot(n) < Len(n)

SuffixOfName(n) == IF HasSuffix(n) THEN SubSeq(n, LastDot(n), Len(n)) ELSE <<>>

StemOfName(n) == IF HasSuffix(n) THEN SubSeq(n, 1, LastDot(n) - 1) ELSE n

Suffix(p) == IF Len(p) = 0 THEN <<>> ELSE SuffixOfName(Name(p))

Stem(p) == IF Len(p) = 0 THEN <<>> ELSE StemOfName(Name(p))

\* a / b
Join(a, b) == IF IsAbs(b) THEN b ELSE a \o b

IsPrefix(p, q) == Len(p) <= Len(q) /\ SubSeq(q, 1, Len(p)) = p

\* p and all its ancestors
Ancestors(p) == {SubSeq(p, 1, k) : k \in 1..Len(p)}

(***************************************************************************)
(* The filesystem: files maps the path of every plain file to its content  *)
(* and size, dirs is the set of directories.                               *)
(***************************************************************************)
IsFile(f, p) == p \in DOMAIN f

IsDir(d, p) == p \in d

Exists(f, d, p) == IsFile(f, p) \/ IsDir(d, p)

Entries(f, d) == DOMAIN f \cup d

\* children of a directory (Path.iterdir / the candidates of Path.glob)
Children(f, d, par) == {p \in Entries(f, d) : Len(p) = Len(par) + 1 /\ IsPrefix(par, p)}

\* Path.mkdir(parents=True, exist_ok=True) fails when the path or one of its
\* ancestors is a plain file
CanMkdir(f, p) == \A a \in Ancestors(p) : ~IsFile(f, a)

Put(f, p, v) == [q \in DOMAIN f \cup {p} |-> IF q = p THEN v ELSE f[q]]

Drop(f, P) == [q \in DOMAIN f \ P |-> f[q]]

\* the path q of the tree rooted at src, under the new root dst
Rebase(q, src, dst) == dst \o SubSeq(q, Len(src) + 1, Len(q))

(***************************************************************************)
(* FileMover: taxonomy and validation.                                     *)
(***************************************************************************)
root_dir == <<RootComp, W("out")>>

sub_dirs_map ==
  << [cat |-> W("documents"), subs |-> <<W("pdf"), W("word"), W("excel")>>],
     [cat |-> W("finance"),   subs |-> <<W("invoices"), W("receipts")>>],
     [cat |-> W("work"),      subs |-> <<W("projects"), W("other")>>],
     [cat |-> W("studies"),   subs |-> <<W("notes"), W("assignments")>>],
     [cat |-> W("health"),    subs |-> <<W("training"), W("insurance")>>],
     [cat |-> W("photos"),    subs |-> <<W("camera"), W("phone"), W("screenshots")>>],
     [cat |-> W("software"),  subs |-> <<W("installers"), W("configs")>>],
     [cat |-> W("archives"),  subs |-> <<W("zip"), W("rar")>>],
     [cat |-> W("hidden"),    subs |-> <<>>],
     [cat |-> W("large"),     subs |-> <<>>],
     [cat |-> W("misc"),      subs |-> <<>>],
     [cat |-> W("dev"),       subs |-> <<W("python"), W("javascript"), W("java"), W("other")>>] >>

Range(s) == {s[i] : i \in 1..Len(s)}

Categories == {sub_dirs_map[i].cat : i \in 1..Len(sub_dirs_map)}

CatIndex(c) == CHOOSE i \in 1..Len(sub_dirs_map) : sub_dirs_map[i].cat = c

SubCategories(c) == Range(sub_dirs_map[CatIndex(c)].subs)

\* the directories _create_directory_structure makes under root_dir
StructureDirs ==
  UNION {{root_dir \o <<c>>} \cup {root_dir \o <<c, s>> : s \in SubCategories(c)} : c \in Categories}

Err(type, kind, arg) == [type |-> type, kind |-> kind, arg |-> arg]

NoErr == Err("none", "none", <<>>)

\* _validate_category without the check of the leading component: the variant
\* that lets an undeclared category through
ValidateCategoryAnyCategory(parts) ==
  IF Len(parts) = 0 THEN Err("RuntimeError", "empty_suggested_path", <<>>)
  ELSE IF parts[1] \in Categories /\ Len(parts) > 1 /\ SubCategories(parts[1]) # {}
          /\ parts[2] \notin SubCategories(parts[1])
       THEN Err("RuntimeError", "invalid_subcategory", parts[2])
  ELSE NoErr

\* _validate_category without the check of the second component
ValidateCategoryNoSubcategory(parts) ==
  IF Len(parts) = 0 THEN Err("RuntimeError", "empty_suggested_path", <<>>)
  ELSE IF parts[1] \notin Categories
       THEN Err("RuntimeError", "invalid_category", parts[1])
  ELSE NoErr

\* _validate_category: the error it raises, NoErr when it returns
ValidateCategory(parts) ==
  IF Len(parts) = 0 THEN Err("RuntimeError", "empty_suggested_path", <<>>)
  ELSE IF parts[1] \notin Categories
       THEN Err("RuntimeError", "invalid_category", parts[1])
  ELSE IF Len(parts) > 1 /\ SubCategories(parts[1]) # {}
          /\ parts[2] \notin SubCategories(parts[1])
       THEN Err("RuntimeError", "invalid_subcategory", parts[2])
  ELSE NoErr

\* _validate_extension: the error it raises, NoErr when it returns
ValidateExtension(source_path, suggested_path) ==
  IF Lower(Suffix(source_path)) # Lower(Suffix(suggested_path))
  THEN Err("ValueError", "extension_changed", Suffix(suggested_path))
  ELSE NoErr

(***************************************************************************)
(* FileMover: conflict handling, checksum, copy and move.                  *)
(***************************************************************************)
\* files of 100 MB and more are not hashed
CeilingBytes == 100 * 1024 * 1024

\* _calculate_hash: the SHA-256 digest of the file's bytes; distinct data
\* have distinct digests
Sha256(data) == <<"sha256", data>>

NumberedName(stem, n, suffix) == stem \o Str(n) \o suffix

\* the first name stem{counter}suffix, counter = 2, 3, ..., that does not exist
\* in the directory
Numbered(parent, stem, n, suffix) == parent \o <<NumberedName(stem, n, suffix)>>

FirstFree(f, d, parent, stem, suffix) ==
  Numbered(parent, stem,
           CHOOSE n \in 2..(Cardinality(Entries(f, d)) + 2) :
             /\ ~Exists(f, d, Numbered(parent, stem, n, suffix))
             /\ \A m \in 2..(n - 1) : Exists(f, d, Numbered(parent, stem, m, suffix)),
           suffix)

\* _handle_conflicts that hands the destination back although it is taken
HandleConflictsKeepsName(f, d, destination) == destination

\* _handle_conflicts
HandleConflicts(f, d, destination) ==
  IF ~Exists(f, d, destination) THEN destination
  ELSE IF IsFile(f, destination) \/ "." \in Range(Name(destination))
       THEN FirstFree(f, d, Parent(destination), Stem(destination), Suffix(destination))
       ELSE FirstFree(f, d, Parent(destination), Name(destination), <<>>)

\* what the transfer of one call does: it completes, completes with damaged
\* bytes at the destination, fails leaving nothing, or fails leaving a
\* partial destination
IoOutcomes == {"ok", "corrupt", "fail_clean", "fail_partial"}

Damaged(v) == [data |-> 0, size |-> v.size]

\* what a call leaves behind: the filesystem, the returned path (NoPath when
\* it raised), the error raised, and for the record the operation that did
\* the transfer, the destination it was given and the path it settled on
Result(f, d, ret, err) ==
  [files |-> f, dirs |-> d, ret |-> ret, err |-> err,
   via |-> "none", dest |-> NoPath, final |-> NoPath, verified |-> FALSE,
   named |-> <<>>]

\* the files and directories of the tree rooted at a directory
TreeFiles(f, src) == {q \in DOMAIN f : IsPrefix(src, q)}

TreeDirs(d, src) == {q \in d : IsPrefix(src, q)}

\* files after the bytes of source have been written at final
Written(f, d, source, final, damaged) ==
  IF IsDir(d, source)
  THEN [q \in DOMAIN f \cup {Rebase(t, source, final) : t \in TreeFiles(f, source)} |->
          IF q \in DOMAIN f THEN f[q]
          ELSE LET t == CHOOSE t \in TreeFiles(f, source) : Rebase(t, source, final) = q
               IN  IF damaged THEN Damaged(f[t]) ELSE f[t]]
  ELSE Put(f, final, IF damaged THEN Damaged(f[source]) ELSE f[source])

DirsWritten(d, source, final) ==
  IF IsDir(d, source)
  THEN d \cup {Rebase(t, source, final) : t \in TreeDirs(d, source)}
  ELSE d

\* a move that leaves the source where it was
RemovedNothing(f, d, source) == f

\* the source removed (shutil.move after the bytes are at the destination)
Removed(f, d, source) == IF IsDir(d, source) THEN Drop(f, TreeFiles(f, source))
                         ELSE Drop(f, {source})

DirsRemoved(d, source) == IF IsDir(d, source) THEN d \ TreeDirs(d, source) ELSE d

\* a transfer that never compares the digests
HashMismatchIgnored(source_hash, f, final_destination) == FALSE

\* the verification after the transfer: the digest of the destination is
\* compared when a source digest was taken and the destination is a file
HashMismatch(source_hash, f, final_destination) ==
  /\ source_hash # NoHash
  /\ IsFile(f, final_destination)
  /\ source_hash # Sha256(f[final_destination].data)

\* an except clause that raises an error type of its own for each cause
WrappedByCause(kind) ==
  Err(IF kind = "hash_mismatch" THEN "DataIntegrityError" ELSE "OSError", kind, <<>>)

\* the except clause of the try block: whatever was raised inside, the
\* mismatch of the digests included, is raised again as a RuntimeError
Wrapped(kind) == Err("RuntimeError", kind, <<>>)

\* the call raises from the except clause; the message names the source and
\* the destination the call was given
Failed(f, d, kind, source, destination) ==
  [Result(f, d, NoPath, Wrapped(kind)) EXCEPT !.named = <<source, destination>>]

\* the try block shared by copy and move; remove tells them apart
Transfer(f, d, source, destination, io, remove) ==
  IF ~CanMkdir(f, Parent(Resolved(destination)))
  THEN Failed(f, d, "mkdir_failed", source, destination)
  ELSE
    LET d1 == d \cup Ancestors(Parent(Resolved(destination)))
        final_destination == HandleConflicts(f, d1, Resolved(destination))
        source_hash == IF IsFile(f, source) /\ f[source].size < CeilingBytes
                       THEN Sha256(f[source].data) ELSE NoHash
        f2 == Written(f, d1, source, final_destination, io # "ok")
        d2 == DirsWritten(d1, source, final_destination)
        f3 == IF remove THEN Removed(f2, d2, source) ELSE f2
        d3 == IF remove THEN DirsRemoved(d2, source) ELSE d2
        r == IF remove /\ IsDir(d1, source) /\ IsPrefix(source, final_destination)
             THEN \* shutil.move refuses to move a directory into itself
                  Failed(f, d1, "move_into_itself", source, destination)
             ELSE IF io = "fail_clean"
             THEN Failed(f, d1, "io_failure", source, destination)
             ELSE IF io = "fail_partial"
             THEN Failed(f2, d2, "io_failure", source, destination)
             ELSE IF HashMismatch(source_hash, f3, final_destination)
             THEN Failed(f3, d3, "hash_mismatch", source, destination)
             ELSE Result(f3, d3, final_destination, NoErr)
    IN  [r EXCEPT !.final = final_destination,
                  !.verified = (r.err = NoErr /\ source_hash # NoHash
                                /\ IsFile(f3, final_destination))]

\* os.access(p, R_OK) and os.access(p, W_OK) for an existing entry
Readable(den, p) == p \notin den.r

Writable(den, p) == p \notin den.w

\* the walk up from destination.parent to the first ancestor that exists
NearestExisting(f, d, p) ==
  CHOOSE a \in Ancestors(p) :
    /\ Exists(f, d, a) \/ Len(a) = 1
    /\ \A b \in Ancestors(p) : Len(b) > Len(a) => ~Exists(f, d, b)

\* a check of the destination that lets every destination pass
DestinationNeverDenied(f, d, den, destination) == FALSE

DestinationDenied(f, d, den, destination) ==
  LET dest_parent == NearestExisting(f, d, Parent(Resolved(destination)))
  IN  Exists(f, d, dest_parent) /\ ~Writable(den, dest_parent)

\* a copy that takes the source away as a move does
CopyBodyRemoving(f, d, den, source, destination, io) ==
  IF source = <<>> THEN Result(f, d, NoPath, Err("ValueError", "empty_source", <<>>))
  ELSE IF destination = <<>>
       THEN Result(f, d, NoPath, Err("ValueError", "empty_destination", <<>>))
  ELSE IF ~Exists(f, d, PathOf(source))
       THEN Result(f, d, NoPath, Err("FileNotFoundError", "source_missing", <<>>))
  ELSE IF ~Readable(den, PathOf(source))
       THEN Result(f, d, NoPath, Err("PermissionError", "source_unreadable", <<>>))
  ELSE IF DestinationDenied(f, d, den, PathOf(destination))
       THEN Result(f, d, NoPath, Err("PermissionError", "destination_unwritable", <<>>))
  ELSE Transfer(f, d, PathOf(source), PathOf(destination), io, TRUE)

\* FileMover.copy
CopyBody(f, d, den, source, destination, io) ==
  IF source = <<>> THEN Result(f, d, NoPath, Err("ValueError", "empty_source", <<>>))
  ELSE IF destination = <<>>
       THEN Result(f, d, NoPath, Err("ValueError", "empty_destination", <<>>))
  ELSE IF ~Exists(f, d, PathOf(source))
       THEN Result(f, d, NoPath, Err("FileNotFoundError", "source_missing", <<>>))
  ELSE IF ~Readable(den, PathOf(source))
       THEN Result(f, d, NoPath, Err("PermissionError", "source_unreadable", <<>>))
  ELSE IF DestinationDenied(f, d, den, PathOf(destination))
       THEN Result(f, d, NoPath, Err("PermissionError", "destination_unwritable", <<>>))
  ELSE Transfer(f, d, PathOf(source), PathOf(destination), io, FALSE)

Copy(f, d, den, source, destination, io) ==
  [CopyBody(f, d, den, source, destination, io)
     EXCEPT !.via = "copy", !.dest = PathOf(destination)]

\* FileMover.move
MoveBody(f, d, den, source, destination, io) ==
  IF source = <<>> THEN Result(f, d, NoPath, Err("ValueError", "empty_source", <<>>))
  ELSE IF destination = <<>>
       THEN Result(f, d, NoPath, Err("ValueError", "empty_destination", <<>>))
  ELSE IF ~Exists(f, d, PathOf(source))
       THEN Result(f, d, NoPath, Err("FileNotFoundError", "source_missing", <<>>))
  ELSE IF ~Readable(den, PathOf(source))
       THEN Result(f, d, NoPath, Err("PermissionError", "source_unreadable", <<>>))
  ELSE IF ~Writable(den, Parent(PathOf(source)))
       THEN Result(f, d, NoPath, Err("PermissionError", "source_parent_unwritable", <<>>))
  ELSE IF DestinationDenied(f, d, den, PathOf(destination))
       THEN Result(f, d, NoPath, Err("PermissionError", "destination_unwritable", <<>>))
  ELSE Transfer(f, d, PathOf(source), PathOf(destination), io, TRUE)

Move(f, d, den, source, destination, io) ==
  [MoveBody(f, d, den, source, destination, io)
     EXCEPT !.via = "move", !.dest = PathOf(destination)]

\* FileMover.organize_file
OrganizeFile(f, d, den, mode, source_file_path, suggested_path, io) ==
  IF source_file_path = <<>>
  THEN Result(f, d, NoPath, Err("ValueError", "empty_source", <<>>))
  ELSE IF suggested_path = <<>>
  THEN Result(f, d, NoPath, Err("ValueError", "empty_suggested_path", <<>>))
  ELSE IF ~Exists(f, d, PathOf(source_file_path))
  THEN Result(f, d, NoPath, Err("FileNotFoundError", "source_missing", <<>>))
  ELSE IF ~Readable(den, PathOf(source_file_path))
  THEN Result(f, d, NoPath, Err("PermissionError", "source_unreadable", <<>>))
  ELSE IF ~mode /\ ~Writable(den, Parent(PathOf(source_file_path)))
  THEN Result(f, d, NoPath, Err("PermissionError", "source_parent_unwritable", <<>>))
  ELSE IF ValidateCategory(PathOf(suggested_path)) # NoErr
  THEN Result(f, d, NoPath, ValidateCategory(PathOf(suggested_path)))
  ELSE IF ValidateExtension(PathOf(source_file_path), PathOf(suggested_path)) # NoErr
  THEN Result(f, d, NoPath,
              ValidateExtension(PathOf(source_file_path), PathOf(suggested_path)))
  ELSE IF mode
       THEN Copy(f, d, den, PathOf(source_file_path),
                 Join(root_dir, PathOf(suggested_path)), io)
       ELSE Move(f, d, den, PathOf(source_file_path),
                 Join(root_dir, PathOf(suggested_path)), io)
(***************************************************************************)
(* The files, directories and arguments the model draws from.              *)
(***************************************************************************)
SmallSize == 4096

src_dir == <<RootComp, W("src")>>

SrcA == src_dir \o <<<<"a", ".", "pdf">>>>

SrcB == src_dir \o <<<<"b", ".", "pdf">>>>

SrcC == src_dir \o <<<<"c", ".", "txt">>>>

SrcE == src_dir \o <<<<"e", ".", "pdf">>>>

\* a name that ends in a dot: pathlib gives it the empty suffix
SrcDot == src_dir \o <<<<"n", ".">>>>

SrcTree == src_dir \o <<W("d")>>

SrcTreeFile == SrcTree \o <<<<"x", ".", "pdf">>>>

ReportDir == root_dir \o <<W("documents"), W("pdf"), W("2024")>>

Report == ReportDir \o <<<<"report", ".", "pdf">>>>

Report2 == ReportDir \o <<<<"report", "2", ".", "pdf">>>>

MiscDir == root_dir \o <<W("misc")>>

MiscDot == MiscDir \o <<<<"n", ".">>>>

Bracket == MiscDir \o <<<<"d", "[", "1", "]", ".", "pdf">>>>

Bracket2 == MiscDir \o <<<<"d", "[", "1", "]", "2", ".", "pdf">>>>

File(data, size) == [data |-> data, size |-> size]

SourceFiles ==
  (SrcA :> File(1, SmallSize)) @@ (SrcB :> File(2, CeilingBytes))
  @@ (SrcC :> File(3, SmallSize)) @@ (SrcE :> File(4, CeilingBytes - 1))
  @@ (SrcTreeFile :> File(5, SmallSize)) @@ (SrcDot :> File(6, SmallSize))

\* what the output tree holds before the run
Existing ==
  { <<>>,
    <<Report>>,
    <<Report, Report2>>,
    <<Bracket, Bracket2>> }

ExistingMover == {<<>>, <<Report, Report2, MiscDot>>}

ExistingFiles(e) == [q \in Range(e) |-> File(7 + Len(q), SmallSize)]

NoDenied == [r |-> {}, w |-> {}]

Denials == {NoDenied, [r |-> {SrcB}, w |-> {src_dir, MiscDir}]}

\* the last call of a FileMover operation: its arguments, its outcome and the
\* filesystem it started from
NoCall == [op |-> "none", source |-> <<>>, destination |-> <<>>, ret |-> NoPath,
           err |-> NoErr, via |-> "none", dest |-> NoPath, final |-> NoPath,
           verified |-> FALSE, pre_files |-> <<>>, pre_dirs |-> {},
           again |-> FALSE, first_ret |-> NoPath, named |-> <<>>,
           pre_log |-> <<>>]

NoResult == [organized_count |-> 0, total_count |-> 0, skipped_files |-> <<>>,
             error_files |-> <<>>, outcome |-> "none"]

InitialFiles(e) == SourceFiles @@ ExistingFiles(e)

InitialDirs(e) ==
  Ancestors(SrcTree) \cup Ancestors(root_dir) \cup StructureDirs
  \cup UNION {Ancestors(Parent(q)) : q \in Range(e)}

\* what organize() of main.py returns
NoOrganizeResult == [success |-> FALSE, message |-> "none", organized_count |-> 0,
                     total_count |-> 0, skipped_files |-> <<>>, error_files |-> <<>>]

\* the process has not exited
NotExited == 0 - 1

\* nothing has been typed at the prompt
NoAnswer == <<"unasked">>

\* FileMover.__init__ has run: the mode is fixed and the category directories
\* exist under root_dir
Constructed(existing, denials, planners) ==
  /\ copy_mode \in BOOLEAN
  /\ has_planner \in planners
  /\ \E e \in existing :
       /\ files = InitialFiles(e)
       /\ dirs = InitialDirs(e)
  /\ denied \in denials
  /\ last = NoCall
  /\ calls = 0
  /\ pc = "idle"
  /\ batch = <<>>
  /\ idx = 0
  /\ planned_moves = <<>>
  /\ planned_destinations = {}
  /\ skipped_files = <<>>
  /\ error_files = <<>>
  /\ organized_count = 0
  /\ returned = NoResult
  /\ audit_log = <<>>
  /\ dry_run = TRUE
  /\ scanned = <<>>
  /\ result = NoOrganizeResult
  /\ exit_code = NotExited
  /\ answer = NoAnswer

Init == Constructed(ExistingMover, Denials, {FALSE})

(***************************************************************************)
(* Calls of the public operations of FileMover.                            *)
(***************************************************************************)
SourceArgs == {<<>>, SrcA, SrcB, SrcDot, Report, SrcTree}

DestinationArgs ==
  { <<>>,
    Report,
    Report \o <<<<"x", ".", "pdf">>>>,
    MiscDir \o <<<<"a", ".", "pdf">>>>,
    MiscDir \o <<W("new"), W("d")>>,
    ReportDir \o <<<<"other", ".", "pdf">>>> }

SuggestedArgs ==
  { <<>>,
    <<DotComp>>,
    <<W("documents"), W("pdf"), W("2024"), <<"report", ".", "pdf">>>>,
    <<DotComp, W("documents"), W("pdf"), W("2024"), <<"report", ".", "PDF">>>>,
    <<W("documents"), W("pdf"), W("2024"), <<"report", ".", "txt">>>>,
    <<W("documents"), <<"report", ".", "pdf">>>>,
    <<W("finance"), W("taxes"), W("2024"), <<"x", ".", "pdf">>>>,
    <<W("finance"), W("invoices"), W("2024"), <<"x", ".", "pdf">>>>,
    <<W("misc"), W("anything"), <<"x", ".", "pdf">>>>,
    <<W("misc"), <<"n", ".">>>>,
    <<W("bogus"), <<"x", ".", "pdf">>>>,
    <<DotDotComp, <<"x", ".", "pdf">>>>,
    <<W("misc"), DotDotComp, DotDotComp, <<"x", ".", "pdf">>>>,
    <<RootComp, W("abs"), <<"x", ".", "pdf">>>> }

Called(op, source, destination, res) ==
  [op |-> op, source |-> source, destination |-> destination, ret |-> res.ret,
   err |-> res.err, via |-> res.via, dest |-> res.dest, final |-> res.final,
   verified |-> res.verified, pre_files |-> files, pre_dirs |-> dirs,
   again |-> FALSE, first_ret |-> NoPath, named |-> res.named,
   pre_log |-> audit_log]

Apply(op, source, destination, res) ==
  /\ files' = res.files
  /\ dirs' = res.dirs
  /\ last' = Called(op, source, destination, res)

CallOrganizeFile ==
  /\ pc = "idle" /\ calls < MaxCalls
  /\ \E source \in SourceArgs, suggested \in SuggestedArgs, io \in IoOutcomes :
       Apply("organize_file", source, suggested,
             OrganizeFile(files, dirs, denied, copy_mode, source, suggested, io))
  /\ calls' = calls + 1
  /\ UNCHANGED auxVars
  /\ UNCHANGED <<denied, copy_mode, has_planner>>
  /\ UNCHANGED orgVars

CallCopy ==
  /\ pc = "idle" /\ calls < MaxCalls
  /\ \E source \in SourceArgs, destination \in DestinationArgs, io \in IoOutcomes :
       Apply("copy", source, destination,
             Copy(files, dirs, denied, source, destination, io))
  /\ calls' = calls + 1
  /\ UNCHANGED auxVars
  /\ UNCHANGED <<denied, copy_mode, has_planner>>
  /\ UNCHANGED orgVars

CallMove ==
  /\ pc = "idle" /\ calls < MaxCalls
  /\ \E source \in SourceArgs, destination \in DestinationArgs, io \in IoOutcomes :
       Apply("move", source, destination,
             Move(files, dirs, denied, source, destination, io))
  /\ calls' = calls + 1
  /\ UNCHANGED auxVars
  /\ UNCHANGED <<denied, copy_mode, has_planner>>
  /\ UNCHANGED orgVars

\* one iteration of the loop of _execute_plan (file_organizer.py), whose
\* mover is FileMover() with the default mode
PlanSources == {SrcA, SrcTree}

PlanDestinations == {MiscDir \o <<<<"a", ".", "pdf">>>>, Report}

ExecutePlanMove ==
  /\ pc = "idle" /\ calls < MaxCalls
  /\ copy_mode
  /\ \E source \in PlanSources, destination \in PlanDestinations, io \in IoOutcomes :
       Apply("execute_plan", source, destination,
             Move(files, dirs, denied, source, destination, io))
  /\ calls' = calls + 1
  /\ UNCHANGED auxVars
  /\ UNCHANGED <<denied, copy_mode, has_planner>>
  /\ UNCHANGED orgVars

\* the caller repeats the call that has just returned, with the same
\* arguments
CallAgain ==
  /\ pc = "idle" /\ last.op # "none" /\ ~last.again /\ last.ret # NoPath
  /\ \E io \in IoOutcomes :
       LET res == IF last.op = "organize_file"
                  THEN OrganizeFile(files, dirs, denied, copy_mode,
                                    last.source, last.destination, io)
                  ELSE IF last.op = "copy"
                  THEN Copy(files, dirs, denied, last.source, last.destination, io)
                  ELSE Move(files, dirs, denied, last.source, last.destination, io)
       IN  /\ files' = res.files
           /\ dirs' = res.dirs
           /\ last' = [Called(last.op, last.source, last.destination, res)
                         EXCEPT !.again = TRUE, !.first_ret = last.ret]
  /\ UNCHANGED auxVars
  /\ UNCHANGED <<denied, copy_mode, has_planner, calls>>
  /\ UNCHANGED orgVars

Next == CallOrganizeFile \/ CallCopy \/ CallMove \/ ExecutePlanMove \/ CallAgain

Spec == Init /\ [][Next]_vars
(***************************************************************************)
(* The audit log of the specification (4.3 step 6 and 4.4): src/ holds no  *)
(* log, so the entry, its append after a successful move and undoLast are  *)
(* taken from the specification; the move itself is FileMover.move.        *)
(***************************************************************************)
MaxEntries == 2

AuditEntry(f, source, destination) ==
  [source |-> source, destination |-> destination,
   file_hash |-> IF IsFile(f, source) /\ f[source].size < CeilingBytes
                 THEN Sha256(f[source].data) ELSE NoHash,
   size |-> IF IsFile(f, source) THEN f[source].size ELSE 0]

UndoSources == {SrcA, SrcE, SrcTree}

UndoDestinations == {Report, MiscDir \o <<<<"a", ".", "pdf">>>>}

\* a move by a mover that keeps the log: the entry is appended when the move
\* has succeeded, before the path is returned
LoggedMove ==
  /\ pc = "idle" /\ calls < MaxEntries
  /\ \E source \in UndoSources, destination \in UndoDestinations, io \in IoOutcomes :
       LET res == Move(files, dirs, denied, source, destination, io)
       IN  /\ Apply("move", source, destination, res)
           /\ audit_log' = IF res.ret # NoPath
                           THEN Append(audit_log, AuditEntry(files, source, res.ret))
                           ELSE audit_log
  /\ calls' = calls + 1
  /\ UNCHANGED <<denied, copy_mode, has_planner, dry_run, answer, scanned, result, exit_code>>
  /\ UNCHANGED orgVars

UndoFailed == Err("none", "undo_failed", <<>>)

\* what undoLast does to the filesystem and the log: io tells whether the
\* move back goes through
UndoOutcome(f, d, log, io) ==
  IF log = <<>> THEN [files |-> f, dirs |-> d, log |-> log, ret |-> NoPath, err |-> UndoFailed]
  ELSE LET entry == log[Len(log)]
       IN  IF ~(Exists(f, d, entry.destination) /\ ~Exists(f, d, entry.source))
           THEN [files |-> f, dirs |-> d, log |-> log, ret |-> NoPath, err |-> UndoFailed]
           ELSE IF io # "ok" \/ ~IsDir(d, Parent(entry.source))
           THEN [files |-> f, dirs |-> d, log |-> log, ret |-> NoPath,
                 err |-> Err("none", "io_failure", <<>>)]
           ELSE LET f2 == Written(f, d, entry.destination, entry.source, FALSE)
                    d2 == DirsWritten(d, entry.destination, entry.source)
                IN  [files |-> Removed(f2, d2, entry.destination),
                     dirs |-> DirsRemoved(d2, entry.destination),
                     log |-> SubSeq(log, 1, Len(log) - 1),
                     ret |-> entry.source, err |-> NoErr]

UndoCalled(out) ==
  [NoCall EXCEPT !.op = "undo_last", !.ret = out.ret, !.err = out.err,
                 !.pre_files = files, !.pre_dirs = dirs, !.pre_log = audit_log,
                 !.again = (last.op = "undo_last")]

\* an undoLast that moves the file back and keeps the entry
UndoLastKeepsEntry ==
  /\ pc = "idle" /\ (last.op = "undo_last" => ~last.again)
  /\ \E io \in {"ok", "fail_clean"} :
       LET out == UndoOutcome(files, dirs, audit_log, io)
       IN  /\ files' = out.files
           /\ dirs' = out.dirs
           /\ audit_log' = audit_log
           /\ last' = UndoCalled(out)
  /\ UNCHANGED <<denied, copy_mode, has_planner, calls, dry_run, answer, scanned, result,
                 exit_code>>
  /\ UNCHANGED orgVars

\* undoLast
UndoLast ==
  /\ pc = "idle" /\ (last.op = "undo_last" => ~last.again)
  /\ \E io \in {"ok", "fail_clean"} :
       LET out == UndoOutcome(files, dirs, audit_log, io)
       IN  /\ files' = out.files
           /\ dirs' = out.dirs
           /\ audit_log' = out.log
           /\ last' = UndoCalled(out)
  /\ UNCHANGED <<denied, copy_mode, has_planner, calls, dry_run, answer, scanned, result,
                 exit_code>>
  /\ UNCHANGED orgVars

InitUndo == Constructed(ExistingMover, {NoDenied}, {FALSE})

NextUndo == LoggedMove \/ UndoLast

SpecUndo == InitUndo /\ [][NextUndo]_vars

(***************************************************************************)
(* FileOrganizer._resolve_planning_conflicts (main.py).                    *)
(***************************************************************************)
\* the index of the "]" that closes the class opened by pat[1] = "[", 0 when
\* there is none: a "]" right after the "[" belongs to the class
ClassEnd(pat) ==
  IF \E j \in 3..Len(pat) : pat[j] = "]"
  THEN CHOOSE j \in 3..Len(pat) : pat[j] = "]" /\ \A k \in 3..(j - 1) : pat[k] # "]"
  ELSE 0

\* fnmatch on a name: "*" matches any run of symbols, "[...]" one symbol of
\* the class, an unclosed "[" and every other symbol match themselves
\* (the names of the model hold no "?", "!" or "-")
RECURSIVE FnMatch(_, _)
FnMatch(pat, name) ==
  IF Len(pat) = 0 THEN Len(name) = 0
  ELSE IF Head(pat) = "*"
       THEN FnMatch(Tail(pat), name) \/ (Len(name) > 0 /\ FnMatch(pat, Tail(name)))
  ELSE IF Head(pat) = "[" /\ ClassEnd(pat) > 0
       THEN /\ Len(name) > 0
            /\ Head(name) \in Range(SubSeq(pat, 2, ClassEnd(pat) - 1))
            /\ FnMatch(SubSeq(pat, ClassEnd(pat) + 1, Len(pat)), Tail(name))
  ELSE Len(name) > 0 /\ Head(name) = Head(pat) /\ FnMatch(Tail(pat), Tail(name))

\* parent.glob(pattern): the entries of the directory whose name matches
Glob(f, d, parent, pat) == {e \in Children(f, d, parent) : FnMatch(pat, Name(e))}

\* the sequence numbers a name uses for a stem: the bare stem uses 1, the
\* stem followed by digits uses their value
NumbersOf(name, stem) ==
  IF name = stem THEN {1}
  ELSE IF StartsWith(name, stem) /\ IsDigit(SubSeq(name, Len(stem) + 1, Len(name)))
       THEN {IntOf(SubSeq(name, Len(stem) + 1, Len(name)))}
  ELSE {}

ExistingNumbers(f, d, destination_path, planned) ==
  LET stem == Stem(destination_path)
      suffix == Suffix(destination_path)
      parent == Parent(destination_path)
      on_disk == IF Exists(f, d, parent)
                 THEN UNION {NumbersOf(Stem(e), stem) :
                               e \in Glob(f, d, parent, stem \o <<"*">> \o suffix)}
                 ELSE {}
      in_plan == UNION {NumbersOf(Stem(q), stem) :
                          q \in {q \in planned : Parent(q) = parent /\ Suffix(q) = suffix}}
  IN  on_disk \cup in_plan

NextCounter(numbers) ==
  CHOOSE n \in 2..(Cardinality(numbers) + 2) :
    n \notin numbers /\ \A m \in 2..(n - 1) : m \in numbers

\* a resolution that looks at the directory only, not at the planned batch
ResolvePlanningConflictsOnDisk(f, d, destination_path, planned) ==
  IF ~Exists(f, d, destination_path)
  THEN destination_path
  ELSE Parent(destination_path) \o
       <<NumberedName(Stem(destination_path),
                      NextCounter(ExistingNumbers(f, d, destination_path, {})),
                      Suffix(destination_path))>>

ResolvePlanningConflicts(f, d, destination_path, planned) ==
  IF destination_path \notin planned /\ ~Exists(f, d, destination_path)
  THEN destination_path
  ELSE Parent(destination_path) \o
       <<NumberedName(Stem(destination_path),
                      NextCounter(ExistingNumbers(f, d, destination_path, planned)),
                      Suffix(destination_path))>>

(***************************************************************************)
(* FileOrganizer._execute_organization (main.py): the planning loop, the   *)
(* confirmation and the execution loop.                                    *)
(***************************************************************************)
\* the mover's _get_final_destination: the suggestion is validated as
\* organize_file validates it and prefixed with the output root; the error
\* it raises, NoErr when it returns
GetFinalDestinationError(original_path, suggested_path) ==
  IF ValidateCategory(PathOf(suggested_path)) # NoErr
  THEN ValidateCategory(PathOf(suggested_path))
  ELSE ValidateExtension(PathOf(original_path), PathOf(suggested_path))

GetFinalDestination(original_path, suggested_path) ==
  Join(root_dir, PathOf(suggested_path))

\* FileMover of mover.py defines no _get_final_destination: looking the
\* attribute up raises
AttributeMissing == Err("AttributeError", "no_get_final_destination", <<>>)

Analysis(path, suggestion) == [path |-> path, name |-> Name(path), suggestion |-> suggestion]

Skipped(name, reason) == [name |-> name, reason |-> reason]

PlannedMove(i, original_path, final_destination) ==
  [analysis |-> i, original_path |-> original_path,
   final_destination |-> final_destination]

ScannedSources == <<SrcA, SrcB, SrcC, SrcE>>

NoSuggestion == <<>>

PlanSuggestions ==
  { NoSuggestion,
    <<W("documents"), W("pdf"), W("2024"), <<"report", ".", "pdf">>>>,
    <<W("documents"), W("pdf"), W("2024"), <<"report", "2", ".", "pdf">>>>,
    <<W("misc"), <<"d", "[", "1", "]", ".", "pdf">>>>,
    <<W("finance"), W("taxes"), W("2024"), <<"x", ".", "pdf">>>> }

Batches ==
  UNION {[1..n -> PlanSuggestions] : n \in 1..MaxBatch}

\* _execute_organization is entered with the analyses and their suggestions
StartOrganization ==
  /\ pc = "idle" /\ calls = 0
  /\ \E sug \in Batches :
       batch' = [i \in 1..Len(sug) |-> Analysis(ScannedSources[i], sug[i])]
  /\ pc' = "planning"
  /\ idx' = 1
  /\ planned_moves' = <<>>
  /\ planned_destinations' = {}
  /\ skipped_files' = <<>>
  /\ UNCHANGED auxVars
  /\ UNCHANGED <<files, dirs, denied, copy_mode, has_planner, last, calls,
                 error_files, organized_count, returned>>

\* a planning loop that plans a suggestion although its validation raised
PlanStepKeepsInvalid ==
  /\ pc = "planning" /\ idx <= Len(batch)
  /\ LET analysis == batch[idx]
         original_path == analysis.path
         suggested_path == analysis.suggestion
         final_destination ==
           ResolvePlanningConflicts(files, dirs,
                                    GetFinalDestination(original_path, suggested_path),
                                    planned_destinations)
     IN  IF suggested_path = NoSuggestion
         THEN /\ skipped_files' = Append(skipped_files,
                                         Skipped(analysis.name, Err("none", "no_path_suggestion", <<>>)))
              /\ UNCHANGED <<planned_moves, planned_destinations>>
         ELSE /\ planned_moves' = Append(planned_moves,
                                         PlannedMove(idx, original_path, final_destination))
              /\ planned_destinations' = planned_destinations \cup {final_destination}
              /\ UNCHANGED skipped_files
  /\ idx' = idx + 1
  /\ UNCHANGED auxVars
  /\ UNCHANGED <<files, dirs, denied, copy_mode, has_planner, last, calls, pc, batch,
                 error_files, organized_count, returned>>

\* one iteration of the planning loop
PlanStep ==
  /\ pc = "planning" /\ idx <= Len(batch)
  /\ LET analysis == batch[idx]
         original_path == analysis.path
         suggested_path == analysis.suggestion
         error == IF has_planner
                  THEN GetFinalDestinationError(original_path, suggested_path)
                  ELSE AttributeMissing
         final_destination ==
           ResolvePlanningConflicts(files, dirs,
                                    GetFinalDestination(original_path, suggested_path),
                                    planned_destinations)
     IN  IF suggested_path = NoSuggestion
         THEN /\ skipped_files' = Append(skipped_files,
                                         Skipped(analysis.name, Err("none", "no_path_suggestion", <<>>)))
              /\ UNCHANGED <<planned_moves, planned_destinations>>
         ELSE IF error # NoErr
         THEN /\ skipped_files' = Append(skipped_files, Skipped(analysis.name, error))
              /\ UNCHANGED <<planned_moves, planned_destinations>>
         ELSE /\ planned_moves' = Append(planned_moves,
                                         PlannedMove(idx, original_path, final_destination))
              /\ planned_destinations' = planned_destinations \cup {final_destination}
              /\ UNCHANGED skipped_files
  /\ idx' = idx + 1
  /\ UNCHANGED auxVars
  /\ UNCHANGED <<files, dirs, denied, copy_mode, has_planner, last, calls, pc, batch,
                 error_files, organized_count, returned>>

\* a result that counts the planned moves only
ResultOfPlanned(outcome, organized, skipped, errors) ==
  [organized_count |-> organized, total_count |-> Len(planned_moves),
   skipped_files |-> skipped, error_files |-> errors, outcome |-> outcome]

\* the dict _execute_organization returns
ResultOf(outcome, organized, skipped, errors) ==
  [organized_count |-> organized, total_count |-> Len(batch),
   skipped_files |-> skipped, error_files |-> errors, outcome |-> outcome]

\* an end of planning that prepares the directories of the plan before the
\* user is asked
EndPlanningMakingDirs ==
  /\ pc = "planning" /\ idx > Len(batch)
  /\ IF planned_moves = <<>>
     THEN /\ pc' = "done"
          /\ returned' = ResultOf("no_valid_moves", 0, skipped_files, <<>>)
          /\ UNCHANGED dirs
     ELSE /\ pc' = "confirm"
          /\ dirs' = dirs \cup UNION {Ancestors(Parent(planned_moves[k].final_destination)) :
                                        k \in 1..Len(planned_moves)}
          /\ UNCHANGED returned
  /\ UNCHANGED auxVars
  /\ UNCHANGED <<files, denied, copy_mode, has_planner, last, calls, batch, idx,
                 planned_moves, planned_destinations, skipped_files, error_files,
                 organized_count>>

\* the planning loop is over: nothing to do, or the plan is shown
EndPlanning ==
  /\ pc = "planning" /\ idx > Len(batch)
  /\ IF planned_moves = <<>>
     THEN /\ pc' = "done"
          /\ returned' = ResultOf("no_valid_moves", 0, skipped_files, <<>>)
     ELSE /\ pc' = "confirm"
          /\ UNCHANGED returned
  /\ UNCHANGED auxVars
  /\ UNCHANGED <<files, dirs, denied, copy_mode, has_planner, last, calls, batch, idx,
                 planned_moves, planned_destinations, skipped_files, error_files,
                 organized_count>>

\* input(...).strip().upper()
UpperSym(c) == IF c = "y" THEN "Y" ELSE IF c = "n" THEN "N"
               ELSE IF c = "e" THEN "E" ELSE IF c = "s" THEN "S"
               ELSE IF c = "o" THEN "O" ELSE c

Upper(s) == [i \in 1..Len(s) |-> UpperSym(s[i])]

RECURSIVE Strip(_)
Strip(s) == IF Len(s) > 0 /\ Head(s) = " " THEN Strip(Tail(s))
            ELSE IF Len(s) > 0 /\ s[Len(s)] = " " THEN Strip(SubSeq(s, 1, Len(s) - 1))
            ELSE s

Answers == { <<"y">>, <<" ", "Y", "e", "s", " ">>, <<"n">>, <<"N", "O">>,
             <<>>, <<"y", "e">> }

\* a cancellation that reports the skips of the planning loop only
CancelledFilesNone == <<>>

CancelledFiles ==
  [i \in 1..Len(planned_moves) |->
     Skipped(batch[planned_moves[i].analysis].name,
             Err("none", "cancelled_by_user", <<>>))]

\* a prompt that takes the empty answer for a yes
ConfirmDefaultYes ==
  /\ pc = "confirm"
  /\ \E typed \in Answers :
       LET response == Upper(Strip(typed))
       IN  /\ answer' = typed
           /\ IF response \in {<<"Y">>, <<"Y", "E", "S">>, <<>>}
              THEN /\ pc' = "executing"
                   /\ idx' = 1
                   /\ organized_count' = 0
                   /\ error_files' = <<>>
                   /\ UNCHANGED returned
              ELSE IF response \in {<<"N">>, <<"N", "O">>}
              THEN /\ pc' = "done"
                   /\ returned' = ResultOf("cancelled", 0,
                                           skipped_files \o CancelledFiles, <<>>)
                   /\ UNCHANGED <<idx, organized_count, error_files>>
              ELSE UNCHANGED <<pc, idx, organized_count, error_files, returned>>
  /\ UNCHANGED <<audit_log, dry_run, scanned, result, exit_code>>
  /\ UNCHANGED <<files, dirs, denied, copy_mode, has_planner, last, calls, batch,
                 planned_moves, planned_destinations, skipped_files>>

\* one answer at the prompt
Confirm ==
  /\ pc = "confirm"
  /\ \E typed \in Answers :
       LET response == Upper(Strip(typed))
       IN  /\ answer' = typed
           /\ IF response \in {<<"Y">>, <<"Y", "E", "S">>}
              THEN /\ pc' = "executing"
                   /\ idx' = 1
                   /\ organized_count' = 0
                   /\ error_files' = <<>>
                   /\ UNCHANGED returned
              ELSE IF response \in {<<"N">>, <<"N", "O">>}
              THEN /\ pc' = "done"
                   /\ returned' = ResultOf("cancelled", 0,
                                           skipped_files \o CancelledFiles, <<>>)
                   /\ UNCHANGED <<idx, organized_count, error_files>>
              ELSE UNCHANGED <<pc, idx, organized_count, error_files, returned>>
  /\ UNCHANGED <<audit_log, dry_run, scanned, result, exit_code>>
  /\ UNCHANGED <<files, dirs, denied, copy_mode, has_planner, last, calls, batch,
                 planned_moves, planned_destinations, skipped_files>>

\* while the prompt waits, another process takes a scanned file away
SourceVanishes ==
  /\ pc = "confirm"
  /\ \E gone \in {SrcA} :
       /\ IsFile(files, gone)
       /\ files' = Drop(files, {gone})
  /\ UNCHANGED auxVars
  /\ UNCHANGED <<dirs, denied, copy_mode, has_planner, last, calls>>
  /\ UNCHANGED orgVars

\* an execution loop that stops at the first error
ExecuteStepAborting ==
  /\ pc = "executing" /\ idx <= Len(planned_moves)
  /\ \E io \in IoOutcomes :
       LET move == planned_moves[idx]
           analysis == batch[move.analysis]
           res == OrganizeFile(files, dirs, denied, copy_mode,
                               move.original_path, analysis.suggestion, io)
       IN  /\ Apply("organize_file", move.original_path, analysis.suggestion, res)
           /\ IF res.err # NoErr
              THEN /\ error_files' = Append(error_files, Skipped(analysis.name, res.err))
                   /\ idx' = Len(planned_moves) + 1
                   /\ UNCHANGED organized_count
              ELSE /\ organized_count' = organized_count + 1
                   /\ idx' = idx + 1
                   /\ UNCHANGED error_files
  /\ UNCHANGED auxVars
  /\ UNCHANGED <<denied, copy_mode, has_planner, calls, pc, batch, planned_moves,
                 planned_destinations, skipped_files, returned>>

\* one iteration of the execution loop
ExecuteStep ==
  /\ pc = "executing" /\ idx <= Len(planned_moves)
  /\ \E io \in IoOutcomes :
       LET move == planned_moves[idx]
           analysis == batch[move.analysis]
           res == OrganizeFile(files, dirs, denied, copy_mode,
                               move.original_path, analysis.suggestion, io)
       IN  /\ Apply("organize_file", move.original_path, analysis.suggestion, res)
           /\ IF res.err # NoErr
              THEN /\ error_files' = Append(error_files, Skipped(analysis.name, res.err))
                   /\ UNCHANGED organized_count
              ELSE /\ organized_count' = organized_count + 1
                   /\ UNCHANGED error_files
  /\ idx' = idx + 1
  /\ UNCHANGED auxVars
  /\ UNCHANGED <<denied, copy_mode, has_planner, calls, pc, batch, planned_moves,
                 planned_destinations, skipped_files, returned>>

\* the execution loop is over: the result is returned
EndExecution ==
  /\ pc = "executing" /\ idx > Len(planned_moves)
  /\ pc' = "done"
  /\ returned' = ResultOf("executed", organized_count, skipped_files, error_files)
  /\ UNCHANGED auxVars
  /\ UNCHANGED <<files, dirs, denied, copy_mode, has_planner, last, calls, batch, idx,
                 planned_moves, planned_destinations, skipped_files, error_files,
                 organized_count>>

InitOrganize == Constructed(Existing, Denials, BOOLEAN)

NextOrganize ==
  \/ StartOrganization \/ PlanStep \/ EndPlanning \/ Confirm \/ SourceVanishes
  \/ ExecuteStep \/ EndExecution

SpecOrganize == InitOrganize /\ [][NextOrganize]_vars

\* _execute_organization as it runs: the loops are sequential code and take
\* their next step, and the user ends up typing an answer the prompt accepts
DecisiveAnswer == Confirm /\ pc' # pc

\* the for loop of the execution phase goes on to its next planned move: the
\* steps of ExecuteStep are the steps that advance idx while executing
ExecutionAdvances ==
  pc = "executing" /\ idx <= Len(planned_moves) /\ idx' = idx + 1

InitOrganizeLive == Constructed({<<Report>>}, {NoDenied}, BOOLEAN)

SpecOrganizeLive ==
  /\ InitOrganizeLive /\ [][NextOrganize]_vars
  /\ WF_vars(PlanStep) /\ WF_vars(EndPlanning)
  /\ WF_vars(DecisiveAnswer)
  /\ WF_idx(ExecutionAdvances) /\ WF_vars(EndExecution)

(***************************************************************************)
(* main() of main.py: create_organizer, organize with its four phases, and *)
(* the exit code of the process.                                           *)
(***************************************************************************)
OrganizeResult(success, message, organized, total, skipped, errors) ==
  [success |-> success, message |-> message, organized_count |-> organized,
   total_count |-> total, skipped_files |-> skipped, error_files |-> errors]

MainSuggestions ==
  { NoSuggestion,
    <<W("documents"), W("pdf"), W("2024"), <<"report", ".", "pdf">>>>,
    <<W("finance"), W("taxes"), W("2024"), <<"x", ".", "pdf">>>> }

\* the subsequence of a sequence at the indices of a set
RECURSIVE Pick(_, _)
Pick(seq, keep) ==
  IF seq = <<>> THEN <<>>
  ELSE LET front == Pick(SubSeq(seq, 1, Len(seq) - 1), keep)
       IN  IF Len(seq) \in keep THEN Append(front, seq[Len(seq)]) ELSE front

InitMain == Constructed({<<>>, <<Report>>}, {NoDenied}, BOOLEAN)

\* create_organizer: it returns the organizer, or a component fails to
\* initialise and RuntimeError is raised
CreateOrganizer ==
  /\ pc = "idle" /\ calls = 0 /\ exit_code = NotExited /\ scanned = <<>>
  /\ last = NoCall
  /\ \E raises \in BOOLEAN : pc' = IF raises THEN "raised" ELSE "discover"
  /\ UNCHANGED <<files, dirs, denied, copy_mode, has_planner, last, calls, batch, idx,
                 planned_moves, planned_destinations, skipped_files, error_files,
                 organized_count, returned>>
  /\ UNCHANGED auxVars

\* _discover_files: the scan raises, finds nothing, or returns files
DiscoverFiles ==
  /\ pc = "discover"
  /\ \/ pc' = "raised" /\ UNCHANGED <<scanned, result>>
     \/ /\ scanned' = <<>>
        /\ result' = OrganizeResult(TRUE, "no_files_found", 0, 0, <<>>, <<>>)
        /\ pc' = "returned"
     \/ \E n \in 1..MaxBatch :
          /\ scanned' = SubSeq(ScannedSources, 1, n)
          /\ pc' = "analyze"
          /\ UNCHANGED result
  /\ UNCHANGED <<files, dirs, denied, copy_mode, has_planner, last, calls, batch, idx,
                 planned_moves, planned_destinations, skipped_files, error_files,
                 organized_count, returned, audit_log, dry_run, answer, exit_code>>

\* _analyze_files: a file whose analysis raises is printed and left out
AnalyzeFiles ==
  /\ pc = "analyze"
  /\ \E analysed \in SUBSET (1..Len(scanned)) :
       LET analyses == Pick(scanned, analysed)
       IN  IF analyses = <<>>
           THEN /\ result' = OrganizeResult(FALSE, "no_files_could_be_analyzed", 0,
                                            Len(scanned), <<>>, <<>>)
                /\ pc' = "returned"
                /\ UNCHANGED batch
           ELSE /\ batch' = [i \in 1..Len(analyses) |->
                              Analysis(analyses[i], NoSuggestion)]
                /\ pc' = "plan"
                /\ UNCHANGED result
  /\ UNCHANGED <<files, dirs, denied, copy_mode, has_planner, last, calls, idx,
                 planned_moves, planned_destinations, skipped_files, error_files,
                 organized_count, returned, audit_log, dry_run, answer, scanned, exit_code>>

\* _plan_organization, and the entry to _execute_organization when the
\* planner has suggested a path for some file
PlanOrganization ==
  /\ pc = "plan"
  /\ \/ /\ pc' = "raised"
        /\ UNCHANGED <<batch, idx, planned_moves, planned_destinations,
                       skipped_files, result>>
     \/ \E sug \in [1..Len(batch) -> MainSuggestions] :
          IF \A i \in 1..Len(batch) : sug[i] = NoSuggestion
          THEN /\ result' = OrganizeResult(FALSE, "no_path_suggestions", 0,
                                           Len(scanned), <<>>, <<>>)
               /\ pc' = "returned"
               /\ UNCHANGED <<batch, idx, planned_moves, planned_destinations,
                              skipped_files>>
          ELSE /\ batch' = [i \in 1..Len(batch) |-> Analysis(batch[i].path, sug[i])]
               /\ pc' = "planning"
               /\ idx' = 1
               /\ planned_moves' = <<>>
               /\ planned_destinations' = {}
               /\ skipped_files' = <<>>
               /\ UNCHANGED result
  /\ UNCHANGED <<files, dirs, denied, copy_mode, has_planner, last, calls,
                 error_files, organized_count, returned, audit_log, dry_run, answer, scanned,
                 exit_code>>

\* the user interrupts the prompt: KeyboardInterrupt is no Exception, passes
\* the handler of main and ends the process with the status of an uncaught
\* exception or of the signal, as the interpreter decides
Interrupted ==
  /\ pc = "confirm" /\ scanned # <<>>
  /\ pc' = "exited"
  /\ exit_code' \in {1, 130}
  /\ UNCHANGED <<files, dirs, denied, copy_mode, has_planner, last, calls, batch, idx,
                 planned_moves, planned_destinations, skipped_files, error_files,
                 organized_count, returned, audit_log, dry_run, answer, scanned, result>>

\* organize returns what _execute_organization returned
OrganizeReturns ==
  /\ pc = "done" /\ scanned # <<>>
  /\ result' = OrganizeResult(TRUE, "organization_complete",
                              returned.organized_count, returned.total_count,
                              returned.skipped_files, returned.error_files)
  /\ pc' = "returned"
  /\ UNCHANGED <<files, dirs, denied, copy_mode, has_planner, last, calls, batch, idx,
                 planned_moves, planned_destinations, skipped_files, error_files,
                 organized_count, returned, audit_log, dry_run, answer, scanned, exit_code>>

\* a main that reports failed files with a non-zero code
MainReturnsFailsOnErrors ==
  /\ pc = "returned"
  /\ exit_code' = IF result.skipped_files # <<>> \/ result.error_files # <<>>
                  THEN 1 ELSE 0
  /\ pc' = "exited"
  /\ UNCHANGED <<files, dirs, denied, copy_mode, has_planner, last, calls, batch, idx,
                 planned_moves, planned_destinations, skipped_files, error_files,
                 organized_count, returned, audit_log, dry_run, answer, scanned, result>>

\* main prints the message and returns 0
MainReturns ==
  /\ pc = "returned"
  /\ exit_code' = 0
  /\ pc' = "exited"
  /\ UNCHANGED <<files, dirs, denied, copy_mode, has_planner, last, calls, batch, idx,
                 planned_moves, planned_destinations, skipped_files, error_files,
                 organized_count, returned, audit_log, dry_run, answer, scanned, result>>

\* the handler of main: an Exception out of create_organizer or organize
MainExcept ==
  /\ pc = "raised"
  /\ exit_code' = 1
  /\ pc' = "exited"
  /\ UNCHANGED <<files, dirs, denied, copy_mode, has_planner, last, calls, batch, idx,
                 planned_moves, planned_destinations, skipped_files, error_files,
                 organized_count, returned, audit_log, dry_run, answer, scanned, result>>

NextMain ==
  \/ CreateOrganizer \/ DiscoverFiles \/ AnalyzeFiles \/ PlanOrganization
  \/ PlanStep \/ EndPlanning \/ Confirm \/ Interrupted \/ ExecuteStep \/ EndExecution
  \/ OrganizeReturns \/ MainReturns \/ MainExcept

SpecMain == InitMain /\ [][NextMain]_vars

(***************************************************************************)
(* The click based organizer (file_organizer.py): construction, the plan,  *)
(* the dry run and the execution of the plan.  The process runs in         *)
(* root_dir, where FileMover() puts its category directories, and          *)
(* organizes src_dir.                                                      *)
(***************************************************************************)
data_path == src_dir \o <<W("files")>>

\* _create_base_structure
BaseDirs ==
  UNION {Ancestors(q) :
           q \in { data_path \o <<W("documents")>>,
                   data_path \o <<W("media"), W("images")>>,
                   data_path \o <<W("media"), W("videos")>>,
                   data_path \o <<W("media"), W("audio")>>,
                   data_path \o <<W("archives")>>,
                   data_path \o <<W("large_files")>>,
                   data_path \o <<W("hidden_files")>>,
                   data_path \o <<W("misc")>>,
                   src_dir \o <<W("github")>>,
                   src_dir \o <<W("local"), W("code")>> }}

\* the directories before the first run and before a later run
ClickDirs ==
  { Ancestors(SrcTree) \cup Ancestors(root_dir),
    Ancestors(SrcTree) \cup Ancestors(root_dir) \cup StructureDirs \cup BaseDirs }

\* the command line has been read, nothing has been constructed
InitClick ==
  /\ files = SourceFiles
  /\ dirs \in ClickDirs
  /\ denied = NoDenied
  /\ copy_mode = TRUE
  /\ has_planner = FALSE
  /\ dry_run \in BOOLEAN
  /\ last = NoCall
  /\ calls = 0
  /\ pc = "click_start"
  /\ batch = <<>>
  /\ idx = 0
  /\ planned_moves = <<>>
  /\ planned_destinations = {}
  /\ skipped_files = <<>>
  /\ error_files = <<>>
  /\ organized_count = 0
  /\ returned = NoResult
  /\ audit_log = <<>>
  /\ scanned = <<>>
  /\ result = NoOrganizeResult
  /\ exit_code = NotExited
  /\ answer = NoAnswer

\* FileOrganizer.__init__: FileMover() and _create_base_structure make their
\* directories whatever the mode of the run
ClickConstruct ==
  /\ pc = "click_start"
  /\ dirs' = dirs \cup StructureDirs \cup BaseDirs
  /\ last' = [NoCall EXCEPT !.op = "click_init", !.pre_files = files,
                             !.pre_dirs = dirs]
  /\ pc' = "click_ready"
  /\ UNCHANGED <<files, denied, copy_mode, has_planner, calls, batch, idx,
                 planned_moves, planned_destinations, skipped_files, error_files,
                 organized_count, returned>>
  /\ UNCHANGED auxVars

ClickMoves ==
  {PlannedMove(0, source, destination) :
     source \in PlanSources, destination \in PlanDestinations}

ClickPlans == {<<>>} \cup {<<m>> : m \in ClickMoves}
              \cup {<<m, n>> : m \in ClickMoves, n \in ClickMoves}

\* organize() up to the display of the plan: scanning, analysing and
\* suggesting read the filesystem only
ClickPlan ==
  /\ pc = "click_ready"
  /\ \E move_plan \in ClickPlans :
       /\ planned_moves' = move_plan
       /\ pc' = IF move_plan = <<>> THEN "click_done" ELSE "click_planned"
  /\ UNCHANGED <<files, dirs, denied, copy_mode, has_planner, last, calls, batch,
                 idx, planned_destinations, skipped_files, error_files,
                 organized_count, returned>>
  /\ UNCHANGED auxVars

\* after the display: a dry run ends here; otherwise the user is asked
ClickConfirm ==
  /\ pc = "click_planned"
  /\ IF dry_run
     THEN pc' = "click_done" /\ UNCHANGED <<idx, organized_count, error_files>>
     ELSE \E yes \in BOOLEAN :
            IF yes
            THEN /\ pc' = "click_executing"
                 /\ idx' = 1
                 /\ organized_count' = 0
                 /\ error_files' = <<>>
            ELSE pc' = "click_done" /\ UNCHANGED <<idx, organized_count, error_files>>
  /\ UNCHANGED <<files, dirs, denied, copy_mode, has_planner, last, calls, batch,
                 planned_moves, planned_destinations, skipped_files, returned>>
  /\ UNCHANGED auxVars

\* one iteration of the loop of _execute_plan
ClickExecuteStep ==
  /\ pc = "click_executing" /\ idx <= Len(planned_moves)
  /\ \E io \in IoOutcomes :
       LET move == planned_moves[idx]
           res == Move(files, dirs, denied, move.original_path,
                       move.final_destination, io)
       IN  /\ Apply("execute_plan", move.original_path, move.final_destination, res)
           /\ IF res.err # NoErr
              THEN /\ error_files' = Append(error_files,
                                            Skipped(Name(move.original_path), res.err))
                   /\ UNCHANGED organized_count
              ELSE /\ organized_count' = organized_count + 1
                   /\ UNCHANGED error_files
  /\ idx' = idx + 1
  /\ UNCHANGED <<denied, copy_mode, has_planner, calls, pc, batch, planned_moves,
                 planned_destinations, skipped_files, returned>>
  /\ UNCHANGED auxVars

ClickExecuteEnd ==
  /\ pc = "click_executing" /\ idx > Len(planned_moves)
  /\ pc' = "click_done"
  /\ UNCHANGED <<files, dirs, denied, copy_mode, has_planner, last, calls, batch,
                 idx, planned_moves, planned_destinations, skipped_files,
                 error_files, organized_count, returned>>
  /\ UNCHANGED auxVars

NextClick ==
  ClickConstruct \/ ClickPlan \/ ClickConfirm \/ ClickExecuteStep \/ ClickExecuteEnd

SpecClick == InitClick /\ [][NextClick]_vars

(***************************************************************************)
(* Properties of FileMover, stated on the last call and the filesystem it  *)
(* started from.                                                           *)
(***************************************************************************)
LastSource == PathOf(last.source)

Returned == last.op # "none" /\ last.ret # NoPath

SourceWasFile == last.op # "none" /\ IsFile(last.pre_files, LastSource)

SourceExisted == last.op # "none" /\ last.source # <<>>
                 /\ Exists(last.pre_files, last.pre_dirs, LastSource)

\* an entry that existed before the call is still there, a file with its
\* content and size
Kept(q) == /\ IsFile(last.pre_files, q) =>
                IsFile(files, q) /\ files[q] = last.pre_files[q]
           /\ IsDir(last.pre_dirs, q) => IsDir(dirs, q)

\* the source of the call and, for a directory, everything below it
SourceKept == \A q \in Entries(last.pre_files, last.pre_dirs) :
                IsPrefix(LastSource, q) => Kept(q)

UnderDestinationParent(q) == IsPrefix(Parent(last.dest), q)

\* C3 as claimed: a move or copy that returns gives a path that did not exist
\* before, and every entry that existed at or under the parent of the
\* destination is still there unchanged
C3_NoSilentOverwrite_Claimed ==
  (Returned /\ last.via \in {"move", "copy"}) =>
     /\ ~Exists(last.pre_files, last.pre_dirs, last.ret)
     /\ \A q \in Entries(last.pre_files, last.pre_dirs) :
          UnderDestinationParent(q) => Kept(q)

\* C3 amended: a move or copy that returns gives a path that did not exist
\* before, and every entry that existed at or under the parent of the
\* destination is still there unchanged, except the source a move has taken
\* away (the source itself and, for a directory, what is below it)
C3_NoSilentOverwrite ==
  (Returned /\ last.via \in {"move", "copy"}) =>
     /\ ~Exists(last.pre_files, last.pre_dirs, last.ret)
     /\ \A q \in Entries(last.pre_files, last.pre_dirs) :
          (UnderDestinationParent(q) /\ ~(last.via = "move" /\ IsPrefix(LastSource, q)))
            => Kept(q)

\* a call returned although its destination was taken, and what was there
\* before is beside the new entry
C3_Witness ==
  /\ Returned /\ last.via \in {"move", "copy"}
  /\ Exists(last.pre_files, last.pre_dirs, last.dest)
  /\ last.ret # last.dest
  /\ Exists(files, dirs, last.ret)

\* C4: after a move that returns, the source no longer exists and the
\* returned final destination exists
C4_MoveRemovesSource ==
  (Returned /\ last.via = "move") =>
     /\ ~Exists(files, dirs, LastSource)
     /\ Exists(files, dirs, last.ret)

C4_Witness == Returned /\ last.via = "move" /\ SourceWasFile

\* C5: after a copy, whether it returned or raised, a source that existed
\* still exists with its content unchanged
C5_CopyKeepsSource ==
  (last.via = "copy" /\ SourceExisted) => SourceKept

C5_Witness == last.via = "copy" /\ SourceWasFile /\ Returned
              /\ IsFile(files, last.ret)

\* C6 as claimed: on a mover constructed with copy_mode = True no public
\* operation removes or relocates a source
C6_CopyModeKeepsSource_Claimed ==
  (copy_mode /\ SourceExisted) => SourceKept

\* C7: when a move or copy of a plain file below the checksum ceiling
\* returns, the digest of the returned destination is the digest the source
\* had before the transfer
C7_ChecksumPreserved ==
  (Returned /\ SourceWasFile /\ last.pre_files[LastSource].size < CeilingBytes) =>
     /\ IsFile(files, last.ret)
     /\ Sha256(files[last.ret].data) = Sha256(last.pre_files[LastSource].data)

C7_Witness ==
  /\ Returned /\ SourceWasFile
  /\ last.pre_files[LastSource].size < CeilingBytes
  /\ last.verified

\* C8 as claimed, on the files the checksum applies to (those below the
\* ceiling): after a move or copy of a file, returned or raised, either the
\* final destination exists with a checksum verified equal to the source's,
\* or the source is untouched at its path
C8_NoAmbiguousState_Claimed ==
  (last.via \in {"move", "copy"} /\ SourceWasFile
     /\ last.pre_files[LastSource].size < CeilingBytes) =>
     \/ /\ last.final # NoPath
        /\ IsFile(files, last.final)
        /\ last.verified
        /\ Sha256(files[last.final].data) = Sha256(last.pre_files[LastSource].data)
     \/ Kept(LastSource)

SuggestedParts == PathOf(last.destination)

Unchanged == files = last.pre_files /\ dirs = last.pre_dirs

\* C9: organize_file rejects a suggested path whose leading component is not
\* a declared category, and the filesystem is as it was before the call
C9_UnknownCategoryRejected ==
  (last.op = "organize_file" /\ Len(SuggestedParts) > 0
     /\ SuggestedParts[1] \notin Categories) =>
     /\ last.ret = NoPath
     /\ last.err # NoErr
     /\ Unchanged

\* the source was fine, so the rejection is the one of the category
C9_Witness ==
  /\ last.op = "organize_file"
  /\ Len(SuggestedParts) > 0 /\ SuggestedParts[1] \notin Categories
  /\ last.err = Err("RuntimeError", "invalid_category", SuggestedParts[1])

\* the call got as far as the validation of the category
ReachedValidation ==
  /\ last.op = "organize_file"
  /\ last.source # <<>> /\ last.destination # <<>>
  /\ last.err.type \notin {"FileNotFoundError", "PermissionError"}

SecondUndeclared ==
  /\ Len(SuggestedParts) > 1
  /\ SuggestedParts[1] \in Categories
  /\ SuggestedParts[2] \notin SubCategories(SuggestedParts[1])

SecondDeclared ==
  /\ Len(SuggestedParts) > 1
  /\ SuggestedParts[1] \in Categories
  /\ SuggestedParts[2] \in SubCategories(SuggestedParts[1])

SubcategoryError == Err("RuntimeError", "invalid_subcategory", SuggestedParts[2])

\* C10 as claimed: for every category, a second component outside the
\* declared subcategories is rejected with an error naming it, and a declared
\* one is accepted
C10_SubcategoryValidated_Claimed ==
  ReachedValidation =>
     /\ SecondUndeclared => (last.ret = NoPath /\ last.err = SubcategoryError)
     /\ SecondDeclared => last.err.kind \notin {"invalid_category", "invalid_subcategory"}

\* C10 amended: for every category that declares at least one subcategory, a
\* second component outside the declared ones is rejected with an error
\* naming it and the filesystem is left as it was; a declared second
\* component passes the category validation, and so does any second
\* component under a category that declares none (hidden, large, misc)
C10_SubcategoryValidated ==
  ReachedValidation =>
     /\ (SecondUndeclared /\ SubCategories(SuggestedParts[1]) # {}) =>
          (last.ret = NoPath /\ last.err = SubcategoryError /\ Unchanged)
     /\ (SecondDeclared \/ (SecondUndeclared /\ SubCategories(SuggestedParts[1]) = {})) =>
          last.err.kind \notin {"invalid_category", "invalid_subcategory"}

C10_Witness ==
  /\ ReachedValidation /\ SecondUndeclared
  /\ SubCategories(SuggestedParts[1]) # {}
  /\ last.err = SubcategoryError
(***************************************************************************)
(* Properties of the planning and execution of _execute_organization.      *)
(***************************************************************************)
PlannedPaths == {planned_moves[i].final_destination : i \in 1..Len(planned_moves)}

\* nothing touches the filesystem between the start of the planning loop and
\* the answer at the prompt, so a path resolved in the loop did not exist
\* when it was resolved exactly when it does not exist now
Planning == pc \in {"planning", "confirm"}

\* C1 as claimed: the final destinations of the planned moves are pairwise
\* distinct and none of them existed on the filesystem when it was resolved
C1_PlannedDistinctAndFree_Claimed ==
  Planning =>
     /\ \A i, j \in 1..Len(planned_moves) :
          i # j => planned_moves[i].final_destination # planned_moves[j].final_destination
     /\ \A q \in PlannedPaths : ~Exists(files, dirs, q)

PlanningOver == pc \in {"confirm", "executing", "done"}

ValidSuggestion(a) ==
  /\ a.suggestion # NoSuggestion
  /\ ValidateCategory(PathOf(a.suggestion)) = NoErr
  /\ ValidateExtension(PathOf(a.path), PathOf(a.suggestion)) = NoErr

IsPlanned(i) == \E k \in 1..Len(planned_moves) : planned_moves[k].analysis = i

IsSkipped(i) == \E k \in 1..Len(skipped_files) : skipped_files[k].name = batch[i].name

ReportSuggestion == <<W("documents"), W("pdf"), W("2024"), <<"report", ".", "pdf">>>>

\* a.pdf and b.pdf share the suggestion report.pdf, c.txt is suggested a .pdf
Scenario ==
  /\ Len(batch) = 3
  /\ \A i \in 1..3 : batch[i].suggestion = ReportSuggestion

IoFailed == \E k \in 1..Len(error_files) :
              error_files[k].reason.kind \in {"io_failure", "hash_mismatch", "mkdir_failed"}

\* C2 as claimed, for the FileMover of mover.py: every analysis with a valid
\* suggestion is planned and not skipped, and the three file scenario run to
\* its end on an output tree without report files gives two organized files
\* out of three (report.pdf and report2.pdf) and one skip
C2_EndToEnd_Claimed ==
  ~has_planner =>
     /\ PlanningOver =>
          \A i \in 1..Len(batch) :
            ValidSuggestion(batch[i]) => (IsPlanned(i) /\ ~IsSkipped(i))
     /\ (pc = "done" /\ Scenario /\ returned.outcome # "cancelled" /\ ~IoFailed
         /\ ~IsFile(last.pre_files, Report)) =>
          /\ returned.organized_count = 2
          /\ returned.total_count = 3
          /\ Len(returned.skipped_files) = 1
          /\ IsFile(files, Report) /\ IsFile(files, Report2)

\* the same statement for a mover that has _get_final_destination
EndToEndWithPlanner ==
  has_planner =>
     /\ PlanningOver =>
          \A i \in 1..Len(batch) :
            ValidSuggestion(batch[i]) => (IsPlanned(i) /\ ~IsSkipped(i))
     /\ (pc = "done" /\ Scenario /\ returned.outcome = "executed" /\ ~IoFailed
         /\ ~IsFile(last.pre_files, Report)) =>
          /\ returned.organized_count = 2
          /\ returned.total_count = 3
          /\ Len(returned.skipped_files) = 1
          /\ IsFile(files, Report) /\ IsFile(files, Report2)
\* C11: organize_file rejects, with the filesystem untouched, every suggestion
\* whose extension differs from the source's (letter case aside, as the code
\* compares them), so the path it returns for a file carries the extension of
\* the source.
C11_ExtensionPreserved_Claimed ==
  last.op = "organize_file" /\ SourceExisted =>
    /\ Lower(Suffix(LastSource)) # Lower(Suffix(SuggestedParts)) =>
         ~Returned /\ Unchanged
    /\ Returned /\ SourceWasFile =>
         Lower(Suffix(last.ret)) = Lower(Suffix(LastSource))

\* the same for every name that does not end in a dot
ExtensionPreservedUnlessDotted ==
  last.op = "organize_file" /\ SourceExisted =>
    /\ Lower(Suffix(LastSource)) # Lower(Suffix(SuggestedParts)) =>
         ~Returned /\ Unchanged
    /\ Returned /\ SourceWasFile /\ Name(LastSource)[Len(Name(LastSource))] # "." =>
         Lower(Suffix(last.ret)) = Lower(Suffix(LastSource))
(***************************************************************************)
(* Properties of the planning loop, the prompt and the execution loop.     *)
(***************************************************************************)
\* the planning loop has dealt with the i-th analysis
Processed(i) == PlanningOver \/ (pc = "planning" /\ i < idx)

\* the error the planning loop gets for the i-th analysis when it asks the
\* mover for the destination
PlanningError(i) ==
  IF has_planner THEN GetFinalDestinationError(batch[i].path, batch[i].suggestion)
  ELSE AttributeMissing

FailsValidation(i) == batch[i].suggestion # NoSuggestion /\ PlanningError(i) # NoErr

\* C12: an analysis whose suggestion fails validation in the planning loop is
\* listed in skipped_files under its name with the error as the reason, is
\* not in the planned batch, reserves no destination, and organize_file is
\* never called for it.
C12_InvalidSuggestionSkipped ==
  /\ planned_destinations = PlannedPaths
  /\ \A i \in 1..Len(batch) : Processed(i) /\ FailsValidation(i) =>
        /\ ~IsPlanned(i)
        /\ \E k \in 1..Len(skipped_files) :
             /\ skipped_files[k].name = batch[i].name
             /\ skipped_files[k].reason = PlanningError(i)
             /\ skipped_files[k].reason.kind # "none"
        /\ last.op = "organize_file" => LastSource # batch[i].path

\* a batch with a suggestion that failed validation next to a planned one,
\* after the execution loop has run
C12_Witness ==
  /\ has_planner /\ pc = "done" /\ returned.outcome = "executed"
  /\ last.op = "organize_file"
  /\ \E i \in 1..Len(batch) : FailsValidation(i)
\* the filesystem is as it was when the run started and no operation of the
\* mover has been called
NothingTransferred ==
  /\ last = NoCall
  /\ \E e \in Existing :
       /\ dirs = InitialDirs(e)
       /\ DOMAIN files \subseteq DOMAIN InitialFiles(e)
       /\ \A q \in DOMAIN files : files[q] = InitialFiles(e)[q]
       /\ \A q \in DOMAIN InitialFiles(e) : IsPrefix(root_dir, q) => IsFile(files, q)

CancelledByUser == Err("none", "cancelled_by_user", <<>>)

\* C13: after the answer N or NO _execute_organization has returned (it did
\* not raise) with organized_count 0 and an empty error_files, its
\* skipped_files are the skips of the planning loop followed by one entry
\* "cancelled by user" for every planned file, and nothing was copied or moved.
C13_CancelIsTerminal ==
  pc = "done" /\ returned.outcome = "cancelled" =>
    /\ returned.organized_count = 0
    /\ returned.error_files = <<>>
    /\ returned.total_count = Len(batch)
    /\ Len(returned.skipped_files) = Len(skipped_files) + Len(planned_moves)
    /\ \A j \in 1..Len(skipped_files) :
         /\ returned.skipped_files[j] = skipped_files[j]
         /\ skipped_files[j].reason # CancelledByUser
    /\ \A k \in 1..Len(planned_moves) :
         returned.skipped_files[Len(skipped_files) + k] =
           Skipped(Name(planned_moves[k].original_path), CancelledByUser)
    /\ NothingTransferred

\* a cancelled run that had planned two files and skipped one while planning
C13_Witness ==
  /\ pc = "done" /\ returned.outcome = "cancelled"
  /\ Len(planned_moves) > 1 /\ Len(skipped_files) > 0
\* the execution loop is running or has run to its end
Executing == pc = "executing" \/ (pc = "done" /\ returned.outcome = "executed")

\* how many planned moves the execution loop has attempted
Attempted == IF pc = "executing" THEN idx - 1 ELSE Len(planned_moves)

\* C14: the execution loop attempts the planned moves one by one in plan
\* order, each attempt is counted once, as organized or as an error; an error
\* of organize_file is appended to error_files under the name of its file
\* with the error as reason, and the loop goes on to the end of the plan.
C14_BadFileNeverAborts ==
  Executing =>
    /\ organized_count + Len(error_files) = Attempted
    /\ pc = "done" => /\ Attempted = Len(planned_moves)
                      /\ returned.organized_count = organized_count
                      /\ returned.error_files = error_files
    /\ Attempted > 0 =>
         /\ last.op = "organize_file"
         /\ last.source = planned_moves[Attempted].original_path
         /\ last.destination = batch[planned_moves[Attempted].analysis].suggestion
         /\ last.err # NoErr =>
              /\ Len(error_files) > 0
              /\ error_files[Len(error_files)] =
                   Skipped(Name(planned_moves[Attempted].original_path), last.err)

ErrorKinds == {error_files[k].reason.kind : k \in 1..Len(error_files)}

\* a finished run in which the first planned move failed because its source
\* had vanished and the second was still attempted and succeeded
C14_Witness ==
  /\ pc = "done" /\ returned.outcome = "executed"
  /\ Len(planned_moves) = 2 /\ Len(error_files) = 1
  /\ error_files[1].name = Name(planned_moves[1].original_path)
  /\ error_files[1].reason.kind = "source_missing"
  /\ Returned /\ LastSource = planned_moves[2].original_path
  /\ organized_count = 1

\* a finished run in which a transfer failed and a later move succeeded
TransferFailureWitness ==
  /\ pc = "done" /\ returned.outcome = "executed"
  /\ "io_failure" \in ErrorKinds /\ Returned

\* a finished run with an error for a source that may not be read
PermissionWitness ==
  /\ pc = "done" /\ returned.outcome = "executed"
  /\ "source_unreadable" \in ErrorKinds /\ organized_count > 0
\* the candidate path of the k-th planned move, before conflict resolution
Candidate(k) ==
  GetFinalDestination(planned_moves[k].original_path,
                      batch[planned_moves[k].analysis].suggestion)

\* the k-th planned move is the Rank(k)-th with its candidate, in input order
Rank(k) == Cardinality({j \in 1..k : Candidate(j) = Candidate(k)})

NumberedCandidate(c, n) == Numbered(Parent(c), Stem(c), n, Suffix(c))

\* q is the candidate c or c with digits after its stem
InFamily(q, c) ==
  Parent(q) = Parent(c) /\ Suffix(q) = Suffix(c) /\ NumbersOf(Stem(q), Stem(c)) # {}

Undisturbed(c, k) ==
  /\ \A q \in Entries(files, dirs) : ~InFamily(q, c)
  /\ \A j \in 1..(k - 1) :
       Candidate(j) # c => ~InFamily(planned_moves[j].final_destination, c)

SingleOnDiskWitness ==
  /\ Planning /\ Len(planned_moves) = 1 /\ Exists(files, dirs, Candidate(1))
  /\ planned_moves[1].final_destination = NumberedCandidate(Candidate(1), 2)
(***************************************************************************)
(* Properties of repeated calls and of the errors raised.                  *)
(***************************************************************************)
NotFound == Err("FileNotFoundError", "source_missing", <<>>)

\* the operation of the last call takes the source away
MoveMode == last.op \in {"move", "execute_plan"}
            \/ (last.op = "organize_file" /\ ~copy_mode)

\* C16: the same call made a second time after it succeeded raises the
\* not-found error and leaves the filesystem as it was.
C16_SecondCallNotFound_Claimed ==
  last.again => last.ret = NoPath /\ last.err = NotFound /\ Unchanged

\* C16 (amended): that holds for a call that moves; a call that copies finds
\* its source again, is not rejected as not found and, when it returns,
\* returns another path than the first call and leaves the first copy as it
\* was.
C16_SecondCallNotFound ==
  last.again =>
    /\ MoveMode => last.ret = NoPath /\ last.err = NotFound /\ Unchanged
    /\ ~MoveMode =>
         /\ last.err # NotFound
         /\ Exists(files, dirs, LastSource)
         /\ Returned => /\ last.ret # last.first_ret
                        /\ ~Exists(last.pre_files, last.pre_dirs, last.ret)
                        /\ Kept(last.first_ret)

\* a move repeated after it succeeded
C16_Witness == last.again /\ MoveMode /\ last.err = NotFound

\* a copy repeated after it succeeded, succeeding again
SecondCopyWitness == last.again /\ ~MoveMode /\ Returned
\* move or copy was called with a source that exists and a destination
DirectCall ==
  /\ last.op \in {"move", "copy", "execute_plan"}
  /\ last.source # <<>> /\ last.destination # <<>>
  /\ Exists(last.pre_files, last.pre_dirs, LastSource)

\* the deepest ancestor of the destination that existed before the call may
\* not be written
AncestorNotWritable ==
  \E a \in Ancestors(Parent(PathOf(last.destination))) :
    /\ Exists(last.pre_files, last.pre_dirs, a)
    /\ \A b \in Ancestors(Parent(PathOf(last.destination))) :
         Len(b) > Len(a) => ~Exists(last.pre_files, last.pre_dirs, b)
    /\ a \in denied.w

\* C17: move and copy raise PermissionError with the filesystem untouched
\* when the source may not be read, when (move) the source's parent may not
\* be written, or when the nearest existing ancestor of the destination may
\* not be written.
C17_PermissionBeforeMutation ==
  /\ DirectCall
  /\ \/ LastSource \in denied.r
     \/ last.op # "copy" /\ Parent(LastSource) \in denied.w
     \/ AncestorNotWritable
  => last.ret = NoPath /\ last.err.type = "PermissionError" /\ Unchanged

\* a copy of a readable source to a destination under a directory that does
\* not exist yet, whose nearest existing ancestor may not be written
C17_Witness ==
  /\ DirectCall /\ last.op = "copy" /\ LastSource \notin denied.r
  /\ AncestorNotWritable
  /\ ~Exists(last.pre_files, last.pre_dirs, Parent(PathOf(last.destination)))
  /\ last.err.type = "PermissionError"

UnreadableWitness ==
  DirectCall /\ LastSource \in denied.r /\ last.err.kind = "source_unreadable"

ParentWitness ==
  /\ DirectCall /\ last.op = "move" /\ last.err.kind = "source_parent_unwritable"
\* the error type that a failure of the transfer itself is raised with
IoErrorType == Wrapped("io_failure").type

TransferFailures == {"io_failure", "mkdir_failed", "move_into_itself"}

\* move or copy was called with non-empty arguments
CalledWithArguments ==
  /\ last.op \in {"move", "copy", "execute_plan"}
  /\ last.source # <<>> /\ last.destination # <<>>

\* what both readings of C18 share: a missing source and missing rights
TypedValidationErrors ==
  /\ ~Exists(last.pre_files, last.pre_dirs, LastSource) =>
       last.err.type = "FileNotFoundError"
  /\ last.err.kind \in {"source_unreadable", "source_parent_unwritable",
                        "destination_unwritable"} =>
       last.err.type = "PermissionError"
  /\ last.err.kind \in TransferFailures =>
       /\ last.err.type = IoErrorType
       /\ last.err.type \notin {"FileNotFoundError", "PermissionError"}
       /\ last.named = <<LastSource, PathOf(last.destination)>>

TransferFailureTyped == CalledWithArguments /\ last.err.kind = "io_failure"
\* the transfer of a file below the ceiling ran to its end and the digest of
\* the final destination differs from the digest the source had before
DigestsDiffer ==
  /\ last.via \in {"move", "copy"} /\ last.final # NoPath
  /\ last.err.kind \notin TransferFailures
  /\ IsFile(last.pre_files, LastSource)
  /\ last.pre_files[LastSource].size < CeilingBytes
  /\ IsFile(files, last.final)
  /\ Sha256(files[last.final].data) # Sha256(last.pre_files[LastSource].data)

\* C19: when the digest of the final destination differs from the digest of
\* the source taken before the transfer, move and copy raise and return no
\* path; the transferred bytes stay at the final destination, and after a
\* move the source is gone and is not put back.
C19_MismatchRaisesNoRollback ==
  DigestsDiffer =>
    /\ last.ret = NoPath
    /\ last.err.kind = "hash_mismatch"
    /\ ~Exists(last.pre_files, last.pre_dirs, last.final)
    /\ IsFile(files, last.final)
    /\ last.via = "move" => ~Exists(files, dirs, LastSource)
    /\ last.via = "copy" => Kept(LastSource)

\* a move that raised for a mismatch
C19_Witness == DigestsDiffer /\ last.via = "move" /\ last.err.kind = "hash_mismatch"

MismatchOnCopy == DigestsDiffer /\ last.via = "copy" /\ last.err.kind = "hash_mismatch"
\* what the last call wrote besides the data it transferred: the files, other
\* than the returned destination and what is below it, that are new or have
\* other content than before the call
WrittenBesidesTransfer ==
  {q \in DOMAIN files :
     /\ ~IsPrefix(last.ret, q)
     /\ q \notin DOMAIN last.pre_files \/ files[q] # last.pre_files[q]}

\* C20: a move or copy that returns has appended one entry to the audit log
\* and persisted it before returning: besides the transferred data the call
\* has written the file that holds the log.
C20_AuditEntryAppended_Claimed ==
  Returned /\ last.via \in {"move", "copy"} => WrittenBesidesTransfer # {}

\* what the code does instead: a call writes nothing but the destination
NothingBesidesTransfer ==
  Returned /\ last.via \in {"move", "copy"} => WrittenBesidesTransfer = {}
(***************************************************************************)
(* Properties of the audit log.                                            *)
(***************************************************************************)
UndoReturnedFailure == last.op = "undo_last" /\ last.ret = NoPath
UndoReturnedSuccess == last.op = "undo_last" /\ last.ret # NoPath

\* the entry undoLast found last in the log
LastEntry == last.pre_log[Len(last.pre_log)]

\* the move of the last entry stands: its destination exists and its source
\* does not
Reversible ==
  /\ last.pre_log # <<>>
  /\ Exists(last.pre_files, last.pre_dirs, LastEntry.destination)
  /\ ~Exists(last.pre_files, last.pre_dirs, LastEntry.source)

MostRecentWitness ==
  /\ UndoReturnedSuccess /\ Len(last.pre_log) = 2 /\ Len(audit_log) = 1
  /\ Exists(files, dirs, audit_log[1].destination)
(***************************************************************************)
(* Properties of the click based organizer.                                *)
(***************************************************************************)
ClickConstructed == pc \in {"click_ready", "click_planned", "click_executing",
                            "click_done"}

\* C22: in a dry run the filesystem stays as it was before FileOrganizer was
\* constructed: no file or directory is created, moved or deleted.
C22_DryRunMutatesNothing_Claimed ==
  dry_run /\ ClickConstructed => Unchanged

\* what holds instead: a dry run moves and deletes nothing, and creates the
\* directories of FileMover() and _create_base_structure only
DryRunCreatesDirectories ==
  dry_run /\ ClickConstructed =>
    /\ files = last.pre_files
    /\ dirs = last.pre_dirs \cup StructureDirs \cup BaseDirs
(***************************************************************************)
(* The contract of _resolve_planning_conflicts and the frame of planning.  *)
(***************************************************************************)
\* the destinations reserved when the k-th planned move was resolved
ReservedBefore(k) == {planned_moves[j].final_destination : j \in 1..(k - 1)}

\* the numbers used for a candidate by the entries on disk and the reserved
\* paths with its parent and suffix, the bare stem counting as 1
UsedNumbers(c, reserved) ==
  UNION {NumbersOf(Stem(q), Stem(c)) :
           q \in {q \in Entries(files, dirs) \cup reserved :
                    Parent(q) = Parent(c) /\ Suffix(q) = Suffix(c)}}

\* C24: _resolve_planning_conflicts(d, reserved) returns d when d is neither
\* reserved nor on disk, otherwise parent/stem{N}suffix with N the smallest
\* integer >= 2 that no entry on disk and no reserved path of the form stem or
\* stem+digits uses; its result is never reserved and never exists on disk.
C24_ResolveContract_Claimed ==
  Planning =>
    \A k \in 1..Len(planned_moves) :
      LET d == Candidate(k)
          reserved == ReservedBefore(k)
          resolved == planned_moves[k].final_destination
          used == UsedNumbers(d, reserved)
      IN  /\ IF d \notin reserved /\ ~Exists(files, dirs, d)
             THEN resolved = d
             ELSE \E n \in 2..(Cardinality(used) + 2) :
                    /\ n \notin used
                    /\ \A m \in 2..(n - 1) : m \in used
                    /\ resolved = NumberedCandidate(d, n)
          /\ resolved \notin reserved
          /\ ~Exists(files, dirs, resolved)

\* the contract holds for candidates whose stem has no bracket
NoGlobClass(c) == \A i \in 1..Len(Name(c)) : Name(c)[i] # "["

ResolveContractWithoutClass ==
  Planning =>
    \A k \in 1..Len(planned_moves) :
      LET d == Candidate(k)
          reserved == ReservedBefore(k)
          resolved == planned_moves[k].final_destination
          used == UsedNumbers(d, reserved)
      IN  NoGlobClass(d) =>
            /\ IF d \notin reserved /\ ~Exists(files, dirs, d)
               THEN resolved = d
               ELSE \E n \in 2..(Cardinality(used) + 2) :
                      /\ n \notin used
                      /\ \A m \in 2..(n - 1) : m \in used
                      /\ resolved = NumberedCandidate(d, n)
            /\ resolved \notin reserved
            /\ ~Exists(files, dirs, resolved)

\* C25: planning mutates nothing: no step of _execute_organization from its
\* entry to the answer at the prompt creates, changes or removes a filesystem
\* entry; the two conflict resolvers are functions of the filesystem.
C25_PlanningMutatesNothing ==
  [][(StartOrganization \/ PlanStep \/ EndPlanning \/ Confirm) =>
       (files' = files /\ dirs' = dirs /\ denied' = denied)]_vars

\* the plan is shown after the resolver has looked at a directory that holds
\* the candidate, and the candidate is still there
C25_Witness ==
  /\ pc = "confirm" /\ Len(planned_moves) = 2
  /\ Exists(files, dirs, Candidate(1))
  /\ planned_moves[1].final_destination # Candidate(1)
  /\ ~Exists(files, dirs, planned_moves[2].final_destination)

\* the last planned move that the execution loop has attempted succeeded
LastMoveSucceeded ==
  /\ Executing /\ Attempted >= 1
  /\ last.op = "organize_file" /\ last.err = NoErr

\* C26: the plan the user confirms is the plan that is executed: the
\* destination organize_file returns for a planned move that succeeds is the
\* final_destination resolved and displayed for it, also after an earlier
\* move of the batch failed or when two files shared a candidate.
C26_ConfirmedPlanExecuted_Claimed ==
  LastMoveSucceeded => last.ret = planned_moves[Attempted].final_destination

\* the executed destination is the planned one as long as every earlier move
\* of the batch succeeded and no candidate holds a bracket
PlanExecutedWhileNothingFails ==
  (/\ LastMoveSucceeded
   /\ error_files = <<>>
   /\ \A k \in 1..Len(planned_moves) : NoGlobClass(Candidate(k)))
  => last.ret = planned_moves[Attempted].final_destination

(***************************************************************************)
(* Containment in the output root.                                         *)
(***************************************************************************)
\* organize_file has placed a file: validation passed and a path is returned
PlacedByOrganizeFile == last.op = "organize_file" /\ last.ret # NoPath

\* C27: every file placed through organize_file ends up inside root_dir,
\* whatever suggested path passed the validation of category and extension,
\* paths with ".." components and absolute paths included.
C27_PlacedUnderRoot_Claimed ==
  PlacedByOrganizeFile =>
    /\ IsPrefix(root_dir, last.ret)
    /\ \A q \in Entries(files, dirs) \ Entries(last.pre_files, last.pre_dirs) :
         IsPrefix(root_dir, q)

\* without ".." in the suggestion the file is placed under the category
PlacedUnderRootWithoutDotDot ==
  (PlacedByOrganizeFile /\ DotDotComp \notin Range(last.destination)) =>
    /\ IsPrefix(root_dir \o <<PathOf(last.destination)[1]>>, last.ret)
    /\ PathOf(last.destination)[1] \in Categories
    /\ \A q \in Entries(files, dirs) \ Entries(last.pre_files, last.pre_dirs) :
         IsPrefix(root_dir, q)

\* an absolute suggestion never passes the validation
AbsoluteSuggestionRejected ==
  (last.op = "organize_file" /\ IsAbs(last.destination)
   /\ last.source # <<>> /\ Exists(last.pre_files, last.pre_dirs, PathOf(last.source))
   /\ Readable(denied, PathOf(last.source))
   /\ (copy_mode \/ Writable(denied, Parent(PathOf(last.source)))))
  => last.err.kind = "invalid_category"

(***************************************************************************)
(* Accounting of the result.                                               *)
(***************************************************************************)
\* how often a name occurs in a list of skipped or failed files
Occurrences(listed, name) ==
  Cardinality({k \in 1..Len(listed) : listed[k].name = name})

\* C28: whatever the outcome of _execute_organization (no valid moves,
\* cancelled, executed), every analysed file is counted exactly once:
\* organized_count + len(skipped_files) + len(error_files) = total_count =
\* the number of analyses.
C28_ResultAccounting ==
  (pc = "done" /\ batch # <<>>) =>
    /\ returned.total_count = Len(batch)
    /\ returned.organized_count + Len(returned.skipped_files)
         + Len(returned.error_files) = returned.total_count
    /\ \A i \in 1..Len(batch) :
         Occurrences(returned.skipped_files, batch[i].name)
           + Occurrences(returned.error_files, batch[i].name) <= 1

\* an executed run with an organized file, a skipped file and a failed file
C28_Witness ==
  /\ pc = "done" /\ returned.outcome = "executed"
  /\ returned.organized_count = 1
  /\ Len(returned.skipped_files) = 1 /\ Len(returned.error_files) = 1

CancelledAccountingWitness ==
  /\ pc = "done" /\ returned.outcome = "cancelled"
  /\ Len(returned.skipped_files) = Len(batch) /\ Len(planned_moves) = 2

NoValidMovesWitness ==
  /\ pc = "done" /\ returned.outcome = "no_valid_moves"
  /\ Len(returned.skipped_files) = Len(batch) /\ Len(batch) >= 2

(***************************************************************************)
(* Properties of main() and organize().                                    *)
(***************************************************************************)
\* organize has returned a result to main (it did not raise)
OrganizeReturned == result # NoOrganizeResult

\* C23: the process ends with code 0 when create_organizer and organize have
\* returned, whatever was skipped or failed, and with a non-zero code exactly
\* when an exception came out of one of them.
C23_ExitCode ==
  /\ pc = "exited" => /\ exit_code # NotExited
                      /\ exit_code = 0 <=> OrganizeReturned
                      /\ exit_code # 0 <=> ~OrganizeReturned
  /\ pc # "exited" => exit_code = NotExited

\* a run that ended with code 0 although every analysed file was skipped
C23_Witness ==
  /\ pc = "exited" /\ exit_code = 0
  /\ result.success /\ result.organized_count = 0 /\ result.skipped_files # <<>>

FailedFilesWitness ==
  pc = "exited" /\ exit_code = 0 /\ result.error_files # <<>>

RaisedWitness == pc = "exited" /\ exit_code = 1 /\ scanned # <<>>
\* the files organize accounts for in its result
Accounted ==
  result.organized_count + Len(result.skipped_files) + Len(result.error_files)

\* C29: when organize returns, total_count is the number of scanned files and
\* every scanned file is organized, in skipped_files or in error_files, also
\* when the analysis of some of them raised.
C29_ScannedAccounted_Claimed ==
  (pc \in {"returned", "exited"} /\ OrganizeReturned) =>
    /\ result.total_count = Len(scanned)
    /\ Accounted = Len(scanned)

\* the account is complete when the organization phase ran and no analysis
\* raised
ScannedAccountedWhenAllAnalysed ==
  (/\ pc \in {"returned", "exited"} /\ OrganizeReturned
   /\ result.message = "organization_complete"
   /\ Len(batch) = Len(scanned)) =>
    /\ result.total_count = Len(scanned)
    /\ Accounted = Len(scanned)

\* the organization phase always accounts for the analysed files
AnalysedAccounted ==
  (/\ pc \in {"returned", "exited"} /\ OrganizeReturned
   /\ result.message = "organization_complete") =>
    /\ result.total_count = Len(batch)
    /\ Accounted = Len(batch)
    /\ Len(batch) <= Len(scanned)
(***************************************************************************)
(* The confirmation prompt.                                                *)
(***************************************************************************)
\* the answers of the model that are Y or YES, and N or NO, once trimmed and
\* without regard to case
YesTyped == { <<"y">>, <<" ", "Y", "e", "s", " ">> }

NoTyped == { <<"n">>, <<"N", "O">> }

\* what a step taken at the prompt may do
PromptStep ==
  pc = "confirm" =>
    /\ batch' = batch /\ planned_moves' = planned_moves
    /\ skipped_files' = skipped_files
    /\ Confirm => (files' = files /\ dirs' = dirs)
    /\ pc' = "executing" <=> (Confirm /\ answer' \in YesTyped)
    /\ pc' = "done" <=> (Confirm /\ answer' \in NoTyped)
    /\ pc' = "done" => returned'.outcome = "cancelled"
    /\ pc' \in {"confirm", "executing", "done"}
    /\ (Confirm /\ answer' \notin YesTyped \cup NoTyped) =>
         UNCHANGED <<files, dirs, denied, copy_mode, has_planner, last, calls, pc,
                     batch, idx, planned_moves, planned_destinations, skipped_files,
                     error_files, organized_count, returned>>

\* C30: at the prompt the planned batch and the filesystem stay as they are
\* until a decisive answer: execution starts only on Y or YES, cancellation
\* happens only on N or NO (trimmed, any case), every other answer asks again
\* and changes nothing, and _execute_organization, once entered, returns
\* provided a decisive answer is given in the end.
C30_Confirmation ==
  /\ [][PromptStep]_vars
  /\ (pc = "planning") ~> (pc = "done")

\* execution has started on " Yes " after an answer that was asked again
C30_Witness ==
  /\ pc = "executing" /\ answer = <<" ", "Y", "e", "s", " ">>
  /\ planned_moves # <<>>

AskedAgainWitness == pc = "confirm" /\ answer = <<"y", "e">>

CancelledOnNoWitness ==
  pc = "done" /\ answer = <<"N", "O">> /\ returned.outcome = "cancelled"

ExecutedToTheEndWitness ==
  pc = "done" /\ answer = <<"y">> /\ returned.outcome = "executed"
====
